---- MODULE Spec2Model ----
(***************************************************************************)
(* A model of the OpenDental MCP bridge:                                   *)
(*   - src/index.ts: callBackend and the three tool handlers               *)
(*     (get-patients, get-patient-chart, get-reports), run by two          *)
(*     concurrent invocations on one event loop (specification Spec) or    *)
(*     by one invocation against every body (SoloSpec);                    *)
(*   - src/resources/patient-list.tsx: the patient list widget's state     *)
(*     machine and its derived views (ListSpec), with its row actions      *)
(*     (RowSpec) and fed by a get-patients result (ScenarioSpec);          *)
(*   - src/resources/patient-chart.tsx: the dental chart widget            *)
(*     (ChartSpec);                                                        *)
(*   - src/resources/patient-report.tsx: the insurance and account tabs    *)
(*     of the patient report widget (ReportSpec).                          *)
(***************************************************************************)
EXTENDS Integers, Sequences, FiniteSets, TLC

VARIABLES now, baseUrlValid, inv,
          isPending, patients, search, sortKey, sortDir, page, filtered, sorted,
          sent,
          chartProps, chartTab, selectedTooth, procFilter,
          reportProps, reportTab, acctPage

srvVars == <<now, baseUrlValid, inv>>
listVars == <<isPending, patients, search, sortKey, sortDir, page, filtered, sorted>>
chartVars == <<chartProps, chartTab, selectedTooth, procFilter>>
reportVars == <<reportProps, reportTab, acctPage>>
\* What the server and the list widget's search, sort and paging leave alone.
otherVars == <<sent, chartVars, reportVars>>
vars == <<now, baseUrlValid, inv,
          isPending, patients, search, sortKey, sortDir, page, filtered, sorted,
          sent,
          chartProps, chartTab, selectedTooth, procFilter,
          reportProps, reportTab, acctPage>>

(***************************************************************************)
(* JSON values, as JavaScript sees them after res.json().                  *)
(***************************************************************************)
Undefined == [t |-> "undefined"]
Null == [t |-> "null"]
Num(n) == [t |-> "num", n |-> n]
Str(s) == [t |-> "str", s |-> s]
Obj(f) == [t |-> "obj", f |-> f]
Arr(a) == [t |-> "arr", a |-> a]
\* A response body that is not JSON text (res.json() rejects with a SyntaxError).
Malformed == [t |-> "malformed"]

\* x ?? y
Coalesce(x, y) == IF x.t \in {"null", "undefined"} THEN y ELSE x

\* !x is false
Truthy(x) ==
    CASE x.t \in {"null", "undefined"} -> FALSE
      [] x.t = "num" -> x.n # 0
      [] x.t = "str" -> x.s # ""
      [] OTHER -> TRUE

\* Reading a property of null or undefined throws a TypeError.
CanRead(x) == x.t \notin {"null", "undefined"}

\* x.k for a readable x
Get(x, k) ==
    CASE x.t = "obj" -> IF k \in DOMAIN x.f THEN x.f[k] ELSE Undefined
      [] x.t = "arr" -> IF k = "length" THEN Num(Len(x.a)) ELSE Undefined
      [] OTHER -> Undefined

\* x?.k
OptGet(x, k) == IF CanRead(x) THEN Get(x, k) ELSE Undefined

\* `${x}` of a template literal
ToStr(x) ==
    CASE x.t = "num" -> ToString(x.n)
      [] x.t = "str" -> x.s
      [] x.t = "null" -> "null"
      [] x.t = "undefined" -> "undefined"
      [] x.t = "arr" -> IF x.a = <<>> THEN "" ELSE "[object Object],..."
      [] OTHER -> "[object Object]"

(***************************************************************************)
(* Program constants of src/index.ts.                                      *)
(***************************************************************************)
Tools == {"get-patients", "get-patient-chart", "get-reports"}

TOOL_TIMEOUTS(tool) ==
    CASE tool = "get-patients" -> 30 * 60000
      [] tool = "get-patient-chart" -> 30 * 60000
      [] tool = "get-reports" -> 30 * 60000

\* callBackend's default for timeoutMs
DefaultTimeoutMs == 5 * 60000

\* Handlers of which only get-reports passes a timeout to callBackend.
TimeoutArgOfReportsOnly(tool) ==
    IF tool = "get-reports" THEN << TOOL_TIMEOUTS(tool) >> ELSE <<>>

\* The fourth argument of the handler's call of callBackend: TOOL_TIMEOUTS[<tool>]
\* (<<>> stands for an argument that is left out).
TimeoutArg(tool) == << TOOL_TIMEOUTS(tool) >>

\* timeoutMs: number = 5 * 60_000, the parameter with its default
TimeoutMs(arg) == IF arg = <<>> THEN DefaultTimeoutMs ELSE arg[1]

\* A check that lets every status below 500 through.
ResOkBelow500(status) == status >= 200 /\ status < 500

\* res.ok
ResOk(status) == status >= 200 /\ status <= 299

(***************************************************************************)
(* Tool results: widget({props, output: text(...)}) and error(message).    *)
(* A text is the sequence of the pieces of its template literal.           *)
(***************************************************************************)
WidgetResult(props, output) == [kind |-> "widget", props |-> props, output |-> output]

ErrorResult(message) == [kind |-> "error", message |-> message]

\* An exception that leaves the handler: what a handler without its catch block does.
HandlerRethrows(prefix, e) == [kind |-> "uncaught", message |-> e]

\* catch (e) { return error(`<prefix>${e.message}`) }
HandlerCatch(prefix, e) == ErrorResult(<<prefix>> \o e)

\* The TypeError of reading property k of null.
NullReadMessage(k) == <<"Cannot read properties of null (reading '", k, "')">>

FailPrefix(tool) ==
    CASE tool = "get-patients" -> "Failed to fetch patients: "
      [] tool = "get-patient-chart" -> "Failed to fetch chart: "
      [] tool = "get-reports" -> "Failed to fetch report: "

\* The outcome of callBackend: the parsed JSON, or a thrown error's message.
Returned(json) == [ok |-> TRUE, json |-> json, message |-> <<>>]
Thrown(message) == [ok |-> FALSE, json |-> Undefined, message |-> message]

\* A get-patients handler that reads the raw body only.
PatientsAfterCallNoEnvelope(json) ==
    IF ~CanRead(json)
    THEN HandlerCatch(FailPrefix("get-patients"), NullReadMessage("data"))
    ELSE LET data == json
             pts == Coalesce(Get(data, "patients"), Arr(<<>>))
             totalCount == Coalesce(Get(data, "total_count"), Get(pts, "length"))
         IN  WidgetResult(
               [patients |-> pts, totalCount |-> totalCount],
               <<"Found ", ToStr(totalCount),
                 " patient(s). Use the table to browse or click a patient for details.">>)

\* get-patients, after callBackend returned json
PatientsAfterCall(json) ==
    IF ~CanRead(json)
    THEN HandlerCatch(FailPrefix("get-patients"), NullReadMessage("data"))
    ELSE LET data == Coalesce(Get(json, "data"), json)
             pts == Coalesce(Get(data, "patients"), Arr(<<>>))
             totalCount == Coalesce(Get(data, "total_count"), Get(pts, "length"))
         IN  WidgetResult(
               [patients |-> pts, totalCount |-> totalCount],
               <<"Found ", ToStr(totalCount),
                 " patient(s). Use the table to browse or click a patient for details.">>)

\* The chart handler without its `if (!chart) return error(...)` line.
ChartAfterCallNoCheck(json, patient_name) ==
    IF ~CanRead(json)
    THEN HandlerCatch(FailPrefix("get-patient-chart"), NullReadMessage("data"))
    ELSE LET data == Coalesce(Get(json, "data"), json)
             chart == Get(data, "patient_chart")
         IN  WidgetResult(
               [chart |-> chart, patientName |-> patient_name],
               <<"Dental chart for ", patient_name, ": ",
                 ToStr(Coalesce(OptGet(OptGet(chart, "summary"), "total_teeth_with_work"), Num(0))),
                 " teeth with work, ",
                 ToStr(Coalesce(OptGet(OptGet(chart, "summary"), "missing_teeth_count"), Num(0))),
                 " missing.">>)

\* get-patient-chart, after callBackend returned json
ChartAfterCall(json, patient_name) ==
    IF ~CanRead(json)
    THEN HandlerCatch(FailPrefix("get-patient-chart"), NullReadMessage("data"))
    ELSE LET data == Coalesce(Get(json, "data"), json)
             chart == Get(data, "patient_chart")
         IN  IF ~Truthy(chart)
             THEN ErrorResult(<<"No chart data returned for this patient.">>)
             ELSE WidgetResult(
                    [chart |-> chart, patientName |-> patient_name],
                    <<"Dental chart for ", patient_name, ": ",
                      ToStr(Coalesce(OptGet(Get(chart, "summary"), "total_teeth_with_work"), Num(0))),
                      " teeth with work, ",
                      ToStr(Coalesce(OptGet(Get(chart, "summary"), "missing_teeth_count"), Num(0))),
                      " missing.">>)

\* get-reports, after callBackend returned json
ReportAfterCall(json, patient_name) ==
    IF ~CanRead(json)
    THEN HandlerCatch(FailPrefix("get-reports"), NullReadMessage("data"))
    ELSE LET data == Coalesce(Get(json, "data"), json)
             report == Get(data, "patient_report")
         IN  IF ~Truthy(report)
             THEN ErrorResult(<<"No report data returned for this patient.">>)
             ELSE WidgetResult(
                    [report |-> report, patientName |-> patient_name],
                    <<"Report for ", patient_name, ": balance $",
                      ToStr(Coalesce(OptGet(Get(report, "summary"), "total_outstanding_balance"), Num(0))),
                      ", ",
                      ToStr(Coalesce(OptGet(Get(report, "summary"), "pending_insurance_claims"), Num(0))),
                      " pending claims.">>)

\* A tool handler from the point where its await of callBackend settles.
HandlerResult(tool, patient_name, outcome) ==
    IF ~outcome.ok
    THEN HandlerCatch(FailPrefix(tool), outcome.message)
    ELSE CASE tool = "get-patients" -> PatientsAfterCall(outcome.json)
           [] tool = "get-patient-chart" -> ChartAfterCall(outcome.json, patient_name)
           [] tool = "get-reports" -> ReportAfterCall(outcome.json, patient_name)

(***************************************************************************)
(* The backend, seen from fetch: what it may send back.                    *)
(***************************************************************************)
Responses ==
    << [status |-> 200, statusText |-> "OK"],
       [status |-> 304, statusText |-> "Not Modified"],
       [status |-> 404, statusText |-> "Not Found"],
       [status |-> 500, statusText |-> "Internal Server Error"],
       [status |-> 503, statusText |-> ""] >>

NoResponse == [status |-> 0, statusText |-> ""]

Jane == Obj([first_name |-> Str("Jane"), last_name |-> Str("Doe"), age |-> Num(40),
             city |-> Str("Reno"), status |-> Str("active")])

Al == Obj([first_name |-> Str("Al"), last_name |-> Str("Bo")])

ChartPayload == Obj([summary |-> Obj([total_teeth_with_work |-> Num(3),
                                      missing_teeth_count |-> Num(1)])])

ReportPayload == Obj([summary |-> Obj([total_outstanding_balance |-> Num(120),
                                       pending_insurance_claims |-> Num(2)])])

\* The payloads X a backend may send, bare or as {data: X}.
Payloads ==
    << Obj([patients |-> Arr(<<Jane>>), total_count |-> Num(1)]),
       Obj([patients |-> Arr(<<Jane, Al>>)]),
       Obj([patient_chart |-> ChartPayload]),
       Obj([patient_chart |-> Obj(<<>>)]),
       Obj([patient_chart |-> Null]),
       Obj([patient_report |-> ReportPayload]),
       Obj([patient_report |-> Obj(<<>>)]),
       Obj(<<>>) >>

Envelope(x) == Obj([data |-> x])

\* Every body the model's backend sends with a 2xx status.
Bodies ==
    Payloads
    \o [k \in 1..Len(Payloads) |-> Envelope(Payloads[k])]
    \o << Malformed, Null, Num(5), Envelope(Null), Envelope(Num(5)),
          Obj([data |-> Null, patient_chart |-> ChartPayload]),
          Envelope(Obj([data |-> Null, patient_chart |-> ChartPayload])),
          Envelope(Envelope(Payloads[1])) >>

\* The bodies sent while two invocations run side by side.
ConcurrentBodies == << Bodies[1], Bodies[Len(Payloads) + 3], Malformed, Null >>

PatientNames == {"Jane Doe", "Al Bo"}

(***************************************************************************)
(* Time.  Events happen at multiples of TickMs; a timer whose deadline has *)
(* come runs before time passes, so an I/O event later than the deadline   *)
(* is handled after the timer's callback.                                  *)
(***************************************************************************)
TickMs == TOOL_TIMEOUTS("get-reports")

MaxTicks == 2

Invocations == {"a", "b"}

NewInvocation ==
    [pc |-> "idle", tool |-> "get-patients", patient_name |-> "",
     timer |-> "none", deadline |-> 0, aborted |-> FALSE, requests |-> 0,
     res |-> NoResponse, recv |-> "none", body |-> Undefined, inTime |-> FALSE,
     results |-> <<>>]

\* controller.abort() run by every pending timer: one controller for all calls.
AbortShared(st, i) ==
    [j \in DOMAIN st |->
        IF j = i THEN [st[j] EXCEPT !.aborted = TRUE, !.timer = "fired"]
        ELSE IF st[j].pc \in {"fetching", "reading"} THEN [st[j] EXCEPT !.aborted = TRUE]
        ELSE st[j]]

\* A timer callback that does not abort (or a fetch that was not given the signal).
AbortNothing(st, i) == [st EXCEPT ![i].timer = "fired"]

\* The timer's callback of call i: () => controller.abort(), on i's own controller.
Abort(st, i) == [st EXCEPT ![i].aborted = TRUE, ![i].timer = "fired"]

\* finally { clearTimeout(timeout) } left out
KeepTimer(timer) == timer

\* finally { clearTimeout(timeout) }: a timer that has not run is cancelled.
ClearTimeout(timer) == IF timer = "armed" THEN "cleared" ELSE timer

\* A callBackend that clears its timer on the way out of a successful call only.
SettleClearsOnReturn(st, i, outcome) ==
    [st EXCEPT
       ![i].pc = "done",
       ![i].timer = IF outcome.ok THEN ClearTimeout(st[i].timer) ELSE st[i].timer,
       ![i].results = Append(st[i].results,
                             HandlerResult(st[i].tool, st[i].patient_name, outcome))]

\* callBackend settles with `outcome` (its finally block runs) and the handler
\* returns its result.
Settle(st, i, outcome) ==
    [st EXCEPT
       ![i].pc = "done",
       ![i].timer = ClearTimeout(st[i].timer),
       ![i].results = Append(st[i].results,
                             HandlerResult(st[i].tool, st[i].patient_name, outcome))]

\* A tool is invoked: the handler calls callBackend, which builds the URL (new URL
\* throws on an unusable base, before the timer exists), arms the timer and calls
\* fetch.
Invoke(i, tool, name) ==
    /\ inv[i].pc = "idle"
    /\ IF baseUrlValid
       THEN inv' = [inv EXCEPT
                      ![i].pc = "fetching",
                      ![i].tool = tool,
                      ![i].patient_name = name,
                      ![i].timer = "armed",
                      ![i].deadline = now + TimeoutMs(TimeoutArg(tool)),
                      ![i].requests = inv[i].requests + 1]
       ELSE inv' = [inv EXCEPT
                      ![i].pc = "done",
                      ![i].tool = tool,
                      ![i].patient_name = name,
                      ![i].results = Append(inv[i].results,
                          HandlerResult(tool, name, Thrown(<<"Invalid URL">>)))]
    /\ UNCHANGED <<now, baseUrlValid, listVars, otherVars>>

\* A failed fetch that is tried again.
NetworkErrorRetry(i) ==
    /\ inv[i].pc \in {"fetching", "reading"}
    /\ ~inv[i].aborted
    /\ inv[i].requests < 3
    /\ inv' = [inv EXCEPT ![i].pc = "fetching", ![i].requests = inv[i].requests + 1]
    /\ UNCHANGED <<now, baseUrlValid, listVars, otherVars>>

\* fetch rejects (connection refused, reset) or the body stream breaks off.
NetworkError(i) ==
    /\ inv[i].pc \in {"fetching", "reading"}
    /\ ~inv[i].aborted
    /\ inv' = Settle(inv, i,
                Thrown(IF inv[i].pc = "fetching" THEN <<"fetch failed">> ELSE <<"terminated">>))
    /\ UNCHANGED <<now, baseUrlValid, listVars, otherVars>>

\* The response's status line and headers arrive: fetch resolves with res, and a
\* status outside 200..299 throws.
HeadersArrive(i, r) ==
    /\ inv[i].pc = "fetching"
    /\ ~inv[i].aborted
    /\ IF ResOk(r.status)
       THEN inv' = [inv EXCEPT ![i].pc = "reading", ![i].res = r]
       ELSE inv' = Settle([inv EXCEPT ![i].res = r], i,
                      Thrown(<<"Backend returned ", ToString(r.status), ": ", r.statusText>>))
    /\ UNCHANGED <<now, baseUrlValid, listVars, otherVars>>

\* Part of the body has arrived; res.json() is still pending.
BodyChunk(i) ==
    /\ inv[i].pc = "reading"
    /\ ~inv[i].aborted
    /\ inv[i].recv = "none"
    /\ inv' = [inv EXCEPT ![i].recv = "partial"]
    /\ UNCHANGED <<now, baseUrlValid, listVars, otherVars>>

\* The rejection an aborted fetch or body read settles with.
JsonOfAborted(body) == Thrown(<<"This operation was aborted">>)

\* res.json() once the whole body is there: the parsed value, or a SyntaxError.
JsonOfBody(body) ==
    IF body.t = "malformed"
    THEN Thrown(<<"Unexpected token in JSON">>)
    ELSE Returned(body)

\* The last of the body arrives: res.json() settles and callBackend returns.
BodyComplete(i, body) ==
    /\ inv[i].pc = "reading"
    /\ ~inv[i].aborted
    /\ inv' = Settle([inv EXCEPT ![i].recv = "complete", ![i].body = body,
                                 ![i].inTime = (now <= inv[i].deadline)],
                     i, JsonOfBody(body))
    /\ UNCHANGED <<now, baseUrlValid, listVars, otherVars>>

\* The timeout of call i runs: setTimeout(() => controller.abort(), timeoutMs).
TimerFire(i) ==
    /\ inv[i].timer = "armed"
    /\ now >= inv[i].deadline
    /\ inv' = Abort(inv, i)
    /\ UNCHANGED <<now, baseUrlValid, listVars, otherVars>>

\* The pending await of an aborted call rejects.
AbortReject(i) ==
    /\ inv[i].pc \in {"fetching", "reading"}
    /\ inv[i].aborted
    /\ inv' = Settle(inv, i, JsonOfAborted(inv[i].body))
    /\ UNCHANGED <<now, baseUrlValid, listVars, otherVars>>

\* Time passes, unless a timer is due.
Tick ==
    /\ now + TickMs <= MaxTicks * TickMs
    /\ \A i \in Invocations : ~(inv[i].timer = "armed" /\ now >= inv[i].deadline)
    /\ now' = now + TickMs
    /\ UNCHANGED <<baseUrlValid, inv, listVars, otherVars>>

ListIdle ==
    /\ isPending = TRUE
    /\ patients = <<>>
    /\ search = <<>>
    /\ sortKey = "last_name"
    /\ sortDir = "asc"
    /\ page = 1
    /\ filtered = <<>>
    /\ sorted = <<>>

\* No follow-up message sent; the chart and report widgets wait for their props.
OtherIdle ==
    /\ sent = <<>>
    /\ chartProps = [t |-> "pending"]
    /\ chartTab = "teeth"
    /\ selectedTooth = 0
    /\ procFilter = "all"
    /\ reportProps = [t |-> "pending"]
    /\ reportTab = "overview"
    /\ acctPage = 1

Init ==
    /\ now = 0
    /\ baseUrlValid \in BOOLEAN
    /\ inv = [i \in Invocations |-> NewInvocation]
    /\ ListIdle
    /\ OtherIdle

\* The steps of the invocations I against a backend that sends the bodies B.
ServerNext(I, B) ==
    \/ \E i \in I, tool \in Tools, name \in PatientNames :
          /\ (tool = "get-patients" => name = "Jane Doe")
          /\ Invoke(i, tool, IF tool = "get-patients" THEN "" ELSE name)
    \/ \E i \in I : NetworkError(i)
    \/ \E i \in I, k \in 1..Len(Responses) : HeadersArrive(i, Responses[k])
    \/ \E i \in I : BodyChunk(i)
    \/ \E i \in I, k \in 1..Len(B) : BodyComplete(i, B[k])
    \/ \E i \in I : TimerFire(i)
    \/ \E i \in I : AbortReject(i)
    \/ Tick

\* Two invocations side by side.
Next == ServerNext(Invocations, ConcurrentBodies)

Spec == Init /\ [][Next]_vars

\* One invocation, against every body of the model.
SoloNext == ServerNext({"a"}, Bodies)

SoloSpec == Init /\ [][SoloNext]_vars


(***************************************************************************)
(* The patient list widget (src/resources/patient-list.tsx).               *)
(* A string is the sequence of its UTF-16 code units (32 is the space, 49   *)
(* is "1", 65 is "A", 97 is "a"); a nullable field is <<>> for null and    *)
(* <<v>> for the value v.                                                  *)
(***************************************************************************)
PAGE_SIZE == 10

SortKeys == {"last_name", "first_name", "age", "city", "status"}

\* c.toLowerCase() of one UTF-16 code unit: 'A'..'Z' (65..90) go to 'a'..'z'.
ToLowerChar(c) == IF c >= 65 /\ c <= 90 THEN c + 32 ELSE c

\* s.toLowerCase()
ToLowerCase(s) == SubSeq([k \in 1..Len(s) |-> ToLowerChar(s[k])], 1, Len(s))

\* s.includes(q)
Includes(s, q) == \E k \in 0..(Len(s) - Len(q)) : SubSeq(s, k + 1, k + Len(q)) = q

\* a < b on strings: by code units, a proper prefix first.
StrLess(a, b) ==
    \E k \in 1..Len(b) :
        /\ k <= Len(a) + 1
        /\ \A m \in 1..(k - 1) : a[m] = b[m]
        /\ (k = Len(a) + 1 \/ a[k] < b[k])

\* x ?? d on a nullable field
OrElse(x, d) == IF x = <<>> THEN d ELSE x[1]

\* A nullable string is falsy when it is null or empty.
Falsy(x) == x = <<>> \/ x[1] = <<>>

Patient(fn, ln, age, wp, hp, kp, city, status) ==
    [first_name |-> fn, last_name |-> ln, age |-> age, wireless_phone |-> wp,
     home_phone |-> hp, work_phone |-> kp, city |-> city, status |-> status]

\* The patients a payload is drawn from.
Pool ==
    <<
       \* Al Bo, age 40, phones null / "" / "12", city "Reno", status "a"
       Patient(<<65, 108>>, <<66, 111>>, <<40>>,
               <<>>, << <<>> >>, << <<49, 50>> >>,
               << <<82, 101, 110, 111>> >>, << <<97>> >>),
       \* al bo, age null, phones "21" / "12" / null, city null, status "A"
       Patient(<<97, 108>>, <<98, 111>>, <<>>,
               << <<50, 49>> >>, << <<49, 50>> >>, <<>>,
               <<>>, << <<65>> >>),
       \* Bo Al, age 5, phones "" / "" / "", city "", status null
       Patient(<<66, 111>>, <<65, 108>>, <<5>>,
               << <<>> >>, << <<>> >>, << <<>> >>,
               << <<>> >>, <<>>),
       \* Jane Doe, age 40, phones "5" / null / "1", city "Reno", status "b"
       Patient(<<74, 97, 110, 101>>, <<68, 111, 101>>, <<40>>,
               << <<53>> >>, <<>>, << <<49>> >>,
               << <<82, 101, 110, 111>> >>, << <<98>> >>),
       \* Ed Doe, age 25, phones null / null / null, city "reno", status "a"
       Patient(<<69, 100>>, <<68, 111, 101>>, <<25>>,
               <<>>, <<>>, <<>>,
               << <<114, 101, 110, 111>> >>, << <<97>> >>),
       \* Dee a, age 0, phones null / "25" / "12", city "Elea", status ""
       Patient(<<68, 101, 101>>, <<97>>, <<0>>,
               <<>>, << <<50, 53>> >>, << <<49, 50>> >>,
               << <<69, 108, 101, 97>> >>, << <<>> >>) >>

\* The texts typed into the search box.
Queries ==
    << <<>>,   \* ""
       <<66, 111>>,   \* "Bo"
       <<49, 50>>,   \* "12"
       <<50>>,   \* "2"
       <<32>>,   \* " "
       <<108, 32, 98>>,   \* "l b"
       <<114, 101, 110, 111>>,   \* "reno"
       <<120>> >>   \* "x"

MaxPatients == 21

\* The lengths of the payloads: none, one, a full page, one more, and the longest.
PayloadSizes == {0, 1, PAGE_SIZE, PAGE_SIZE + 1, MaxPatients}

\* props.patients of a payload: n patients of the pool, starting at its entry rot + 1.
Payload(n, rot) == [k \in 1..n |-> Pool[((k - 1 + rot) % Len(Pool)) + 1]]

\* The references to the rows of props.patients, in payload order.
Ids(ps) == [k \in 1..Len(ps) |-> k]

\* A filter that matches on any of the three phone numbers.
MatchesAnyPhone(p, text) ==
    LET q == ToLowerCase(text)
    IN  \/ q = <<>>
        \/ Includes(ToLowerCase(p.first_name \o <<32>> \o p.last_name), q)
        \/ Includes(ToLowerCase(OrElse(p.city, <<>>)), q)
        \/ Includes(ToLowerCase(OrElse(p.wireless_phone, <<>>)), q)
        \/ Includes(ToLowerCase(OrElse(p.home_phone, <<>>)), q)
        \/ Includes(ToLowerCase(OrElse(p.work_phone, <<>>)), q)

\* The callback of props.patients.filter: does patient p pass the search text?
Matches(p, text) ==
    LET q == ToLowerCase(text)
        phone == IF ~Falsy(p.wireless_phone) THEN p.wireless_phone[1]
                 ELSE IF ~Falsy(p.home_phone) THEN p.home_phone[1]
                 ELSE IF ~Falsy(p.work_phone) THEN p.work_phone[1]
                 ELSE <<>>
    IN  \/ q = <<>>
        \/ Includes(ToLowerCase(p.first_name \o <<32>> \o p.last_name), q)
        \/ Includes(ToLowerCase(OrElse(p.city, <<>>)), q)
        \/ Includes(ToLowerCase(phone), q)

\* A filter that keeps only the first page of the matches.
FilterListFirstPage(ps, ids, text) ==
    LET f == SelectSeq(ids, LAMBDA k : Matches(ps[k], text))
    IN  SubSeq(f, 1, IF Len(f) < PAGE_SIZE THEN Len(f) ELSE PAGE_SIZE)

\* list.filter(...) of the `filtered` memo, on the rows `ids` of ps.
FilterList(ps, ids, text) == SelectSeq(ids, LAMBDA k : Matches(ps[k], text))

\* A sort value that keeps the case of the text.
SortValueKeepsCase(a, key) ==
    IF key = "age" THEN OrElse(a.age, 0)
    ELSE IF key \in {"last_name", "first_name"} THEN a[key]
    ELSE OrElse(a[key], <<>>)

\* The value a row is sorted by: a.age ?? 0, or (a[key] ?? "").toString().toLowerCase().
SortValue(a, key) ==
    IF key = "age" THEN OrElse(a.age, 0)
    ELSE ToLowerCase(IF key \in {"last_name", "first_name"} THEN a[key]
                     ELSE OrElse(a[key], <<>>))

\* av < bv, on two numbers or on two strings
ValueLess(av, bv, key) == IF key = "age" THEN av < bv ELSE StrLess(av, bv)

\* The comparator of the `sorted` memo, on the sort values: negative, zero or positive.
Compare(av, bv, key, dir) ==
    IF ValueLess(av, bv, key) THEN (IF dir = "asc" THEN -1 ELSE 1)
    ELSE IF ValueLess(bv, av, key) THEN (IF dir = "asc" THEN 1 ELSE -1)
    ELSE 0

\* The place of each row in a stable sort: behind the rows the comparator puts before
\* it and behind the earlier rows it ties with.
RankOf(val, key, dir) ==
    SubSeq([m \in DOMAIN val |->
              1 + Cardinality({j \in DOMAIN val :
                    Compare(val[j], val[m], key, dir) < (IF j < m THEN 1 ELSE 0)})],
           1, Len(val))

\* The rows in the order of their places.
Arrange(ids, rank) == [r \in DOMAIN ids |-> ids[CHOOSE m \in DOMAIN ids : rank[m] = r]]

\* [...list].sort(comparator) of the `sorted` memo, on the rows `ids` of ps
\* (Array.prototype.sort is stable).
SortList(ps, ids, key, dir) ==
    Arrange(ids, RankOf(SubSeq([m \in DOMAIN ids |-> SortValue(ps[ids[m]], key)],
                               1, Len(ids)),
                        key, dir))

\* Math.ceil(n / d) for n >= 0, d > 0
CeilDiv(n, d) == (n + d - 1) \div d

\* totalPages without Math.max(1, ...)
TotalPagesUnfloored == CeilDiv(Len(sorted), PAGE_SIZE)

TotalPages ==
    LET pages == CeilDiv(Len(sorted), PAGE_SIZE)
    IN  IF pages < 1 THEN 1 ELSE pages

SafePage == IF page < TotalPages THEN page ELSE TotalPages

\* A slice that ends one row short of the next page's first row.
PageDataAtShort(safePage) ==
    LET from == (safePage - 1) * PAGE_SIZE
        to == safePage * PAGE_SIZE - 1
    IN  SubSeq(sorted, from + 1, IF to < Len(sorted) THEN to ELSE Len(sorted))

\* sorted.slice((safePage - 1) * PAGE_SIZE, safePage * PAGE_SIZE)
PageDataAt(safePage) ==
    LET from == (safePage - 1) * PAGE_SIZE
        to == safePage * PAGE_SIZE
    IN  SubSeq(sorted, from + 1, IF to < Len(sorted) THEN to ELSE Len(sorted))

\* pageData: the slice for the page shown
PageData == PageDataAt(SafePage)

\* The render that follows a state change: the `filtered` and `sorted` memos are
\* computed again from the new props, search text, sort key and direction.
Render ==
    /\ filtered' = FilterList(patients', Ids(patients'), search')
    /\ sorted' = SortList(patients', filtered', sortKey', sortDir')

\* The tool result reaches the widget: isPending ends and props hold the payload.
Load(n, rot) ==
    /\ isPending
    /\ isPending' = FALSE
    /\ patients' = Payload(n, rot)
    /\ UNCHANGED <<search, sortKey, sortDir, page, srvVars, otherVars>>
    /\ Render

\* An onChange of the search box that leaves the page where it is.
SetSearchKeepsPage(text) ==
    /\ ~isPending
    /\ text # search
    /\ search' = text
    /\ UNCHANGED <<isPending, patients, sortKey, sortDir, page, srvVars, otherVars>>
    /\ Render

\* onChange of the search box: setSearch(e.target.value); setPage(1).
SetSearch(text) ==
    /\ ~isPending
    /\ text # search
    /\ search' = text
    /\ page' = 1
    /\ UNCHANGED <<isPending, patients, sortKey, sortDir, srvVars, otherVars>>
    /\ Render

\* A toggleSort that keeps the direction when the key changes.
ToggleSortKeepsDir(key) ==
    /\ ~isPending
    /\ IF sortKey = key
       THEN /\ sortDir' = (IF sortDir = "asc" THEN "desc" ELSE "asc")
            /\ UNCHANGED sortKey
       ELSE /\ sortKey' = key
            /\ UNCHANGED sortDir
    /\ UNCHANGED <<isPending, patients, search, page, srvVars, otherVars>>
    /\ Render

\* toggleSort(key), the onClick of a column header.
ToggleSort(key) ==
    /\ ~isPending
    /\ IF sortKey = key
       THEN /\ sortDir' = (IF sortDir = "asc" THEN "desc" ELSE "asc")
            /\ UNCHANGED sortKey
       ELSE /\ sortKey' = key
            /\ sortDir' = "asc"
    /\ UNCHANGED <<isPending, patients, search, page, srvVars, otherVars>>
    /\ Render

\* The Prev button: rendered when totalPages > 1, disabled when safePage <= 1.
Prev ==
    /\ ~isPending
    /\ TotalPages > 1
    /\ ~(SafePage <= 1)
    /\ page' = SafePage - 1
    /\ UNCHANGED <<isPending, patients, search, sortKey, sortDir, srvVars, otherVars>>
    /\ UNCHANGED <<filtered, sorted>>

\* The Next button: rendered when totalPages > 1, disabled when safePage >= totalPages.
NextPage ==
    /\ ~isPending
    /\ TotalPages > 1
    /\ ~(SafePage >= TotalPages)
    /\ page' = SafePage + 1
    /\ UNCHANGED <<isPending, patients, search, sortKey, sortDir, srvVars, otherVars>>
    /\ UNCHANGED <<filtered, sorted>>

ListInit ==
    /\ now = 0
    /\ baseUrlValid = TRUE
    /\ inv = [i \in Invocations |-> NewInvocation]
    /\ ListIdle
    /\ OtherIdle

\* The steps of the list widget for payloads of the lengths `sizes` that start at the
\* pool entries rots, the search texts Queries[k] for k in qs, and the headers `keys`.
ListSteps(sizes, rots, qs, keys) ==
    \/ \E n \in sizes, rot \in rots : Load(n, rot)
    \/ \E k \in qs : SetSearch(Queries[k])
    \/ \E key \in keys : ToggleSort(key)
    \/ Prev
    \/ NextPage

ListNext == ListSteps(PayloadSizes, 0..(Len(Pool) - 1), 1..Len(Queries), SortKeys)

ListSpec == ListInit /\ [][ListNext]_vars

\* The most follow-up messages sent in one run of the model.
MaxSent == 2

\* `Show the dental chart for ${p.first_name} ${p.last_name}` and
\* `Show the full report for ${p.first_name} ${p.last_name}`, as code units.
FollowUpText(kind, p) ==
    (IF kind = "Chart"
     THEN <<83, 104, 111, 119, 32, 116, 104, 101, 32, 100, 101, 110, 116, 97, 108, 32,
            99, 104, 97, 114, 116, 32, 102, 111, 114, 32>>
     ELSE <<83, 104, 111, 119, 32, 116, 104, 101, 32, 102, 117, 108, 108, 32, 114,
            101, 112, 111, 114, 116, 32, 102, 111, 114, 32>>)
    \o p.first_name \o <<32>> \o p.last_name

\* sendFollowUpMessage(text) of useWidget: the host receives the text.
SendFollowUpMessage(text) == sent' = Append(sent, text)

\* A row action that also goes back to the first page.
RowActionResetsPage(kind, r) ==
    /\ ~isPending
    /\ Len(sent) < MaxSent
    /\ r \in 1..Len(PageData)
    /\ SendFollowUpMessage(FollowUpText(kind, patients[PageData[r]]))
    /\ page' = 1
    /\ UNCHANGED <<isPending, patients, search, sortKey, sortDir, filtered, sorted>>
    /\ UNCHANGED <<srvVars, chartVars, reportVars>>

\* onClick of the Chart or the Report button of row r of the page shown.
RowAction(kind, r) ==
    /\ ~isPending
    /\ Len(sent) < MaxSent
    /\ r \in 1..Len(PageData)
    /\ SendFollowUpMessage(FollowUpText(kind, patients[PageData[r]]))
    /\ UNCHANGED <<listVars, srvVars, chartVars, reportVars>>

\* The list widget with its row actions, on payloads of two rows and of a page and
\* one row more.
RowNext ==
    \/ ListSteps({2, PAGE_SIZE + 1}, {0}, {1, 2, 5}, {"last_name", "age"})
    \/ \E kind \in {"Chart", "Report"}, r \in 1..PAGE_SIZE : RowAction(kind, r)

RowSpec == ListInit /\ [][RowNext]_vars

(***************************************************************************)
(* The dental chart widget (src/resources/patient-chart.tsx).              *)
(* chartProps is [t |-> "pending"] until the tool result arrives, and then *)
(* holds props.chart and the theme of the host. Texts are sequences of     *)
(* code units; a nullable field is <<>> for null and <<v>> for the value v. *)
(***************************************************************************)
\* The colors of the dental conditions, by theme.
UseColors(theme) ==
    IF theme = "dark"
    THEN [healthy |-> "#2d6a4f", missing |-> "#6c757d", crown |-> "#2563eb",
          filling |-> "#ca8a04", decay |-> "#dc2626", rootCanal |-> "#7c3aed",
          implant |-> "#0d9488", other |-> "#a0a0a0"]
    ELSE [healthy |-> "#28a745", missing |-> "#adb5bd", crown |-> "#007bff",
          filling |-> "#ffc107", decay |-> "#dc3545", rootCanal |-> "#6f42c1",
          implant |-> "#20c997", other |-> "#6c757d"]

\* The keys of CONDITION_MAP and the color key of each:
\* healthy, missing, crown, filling, decay, "root canal", rootcanal, implant.
CONDITION_MAP ==
    << [name |-> <<104, 101, 97, 108, 116, 104, 121>>, key |-> "healthy"],
       [name |-> <<109, 105, 115, 115, 105, 110, 103>>, key |-> "missing"],
       [name |-> <<99, 114, 111, 119, 110>>, key |-> "crown"],
       [name |-> <<102, 105, 108, 108, 105, 110, 103>>, key |-> "filling"],
       [name |-> <<100, 101, 99, 97, 121>>, key |-> "decay"],
       [name |-> <<114, 111, 111, 116, 32, 99, 97, 110, 97, 108>>, key |-> "rootCanal"],
       [name |-> <<114, 111, 111, 116, 99, 97, 110, 97, 108>>, key |-> "rootCanal"],
       [name |-> <<105, 109, 112, 108, 97, 110, 116>>, key |-> "implant"] >>

\* A lookup that takes a name outside the table for a healthy tooth.
ConditionKeyDefaultsHealthy(name) ==
    IF \E k \in 1..Len(CONDITION_MAP) : CONDITION_MAP[k].name = name
    THEN CONDITION_MAP[CHOOSE k \in 1..Len(CONDITION_MAP) :
                          CONDITION_MAP[k].name = name].key
    ELSE "healthy"

\* CONDITION_MAP[name]?.key ?? "other" (a name the object inherits, such as
\* "constructor", has no key either).
ConditionKey(name) ==
    IF \E k \in 1..Len(CONDITION_MAP) : CONDITION_MAP[k].name = name
    THEN CONDITION_MAP[CHOOSE k \in 1..Len(CONDITION_MAP) :
                          CONDITION_MAP[k].name = name].key
    ELSE "other"

\* getConditionColor(condition, colors)
GetConditionColor(condition, colors) ==
    LET key == ConditionKey(ToLowerCase(condition))
    IN  IF key \in DOMAIN colors THEN colors[key] ELSE colors.other

\* The tooth numbers of the grid: upper arch 1..16, lower arch 32..17.
UpperArch == [i \in 1..16 |-> i]
LowerArch == [i \in 1..16 |-> 33 - i]
Teeth == {UpperArch[i] : i \in 1..16} \cup {LowerArch[i] : i \in 1..16}

ToothEntry(num, condition) == [tooth_number |-> num, condition |-> condition]
Procedure(status) == [status |-> status]

\* The conditions of the full chart, in turn: Healthy, MISSING, Crown, filling, Decay,
\* Root Canal, implant.
KnownSpellings ==
    << <<72, 101, 97, 108, 116, 104, 121>>,
       <<77, 73, 83, 83, 73, 78, 71>>,
       <<67, 114, 111, 119, 110>>,
       <<102, 105, 108, 108, 105, 110, 103>>,
       <<68, 101, 99, 97, 121>>,
       <<82, 111, 111, 116, 32, 67, 97, 110, 97, 108>>,
       <<105, 109, 112, 108, 97, 110, 116>> >>

\* A chart with an entry for each of the teeth 1..32, the known conditions in turn;
\* seven procedures with the statuses Complete, COMPLETED, TP, Treatment Planned,
\* Existing, Completed plan and null; counters that differ from the rows.
FullChart ==
    [teeth_with_conditions |->
        << [n \in 1..32 |-> ToothEntry(n, << KnownSpellings[((n - 1) % 7) + 1] >>)] >>,
     procedures |->
        << << Procedure(<< <<67, 111, 109, 112, 108, 101, 116, 101>> >>),
              Procedure(<< <<67, 79, 77, 80, 76, 69, 84, 69, 68>> >>),
              Procedure(<< <<84, 80>> >>),
              Procedure(<< <<84, 114, 101, 97, 116, 109, 101, 110, 116, 32, 80, 108, 97, 110, 110, 101, 100>> >>),
              Procedure(<< <<69, 120, 105, 115, 116, 105, 110, 103>> >>),
              Procedure(<< <<67, 111, 109, 112, 108, 101, 116, 101, 100, 32, 112, 108, 97, 110>> >>),
              Procedure(<<>>) >> >>,
     procedure_summary |->
        << [completed_procedures |-> <<9>>, treatment_planned_procedures |-> <<0>>] >>]

\* A chart with few entries: tooth 3 twice (Crown, then decay), tooth 5 without a
\* condition, and the conditions Veneer, rootcanal, "", RootCanal, constructor and
\* "root  canal" on teeth 8, 14, 17, 30, 32 and 1; procedures http, planned and "";
\* no counters.
SparseChart ==
    [teeth_with_conditions |->
        << << ToothEntry(3, << <<67, 114, 111, 119, 110>> >>),
              ToothEntry(5, <<>>),
              ToothEntry(8, << <<86, 101, 110, 101, 101, 114>> >>),
              ToothEntry(14, << <<114, 111, 111, 116, 99, 97, 110, 97, 108>> >>),
              ToothEntry(17, << <<>> >>),
              ToothEntry(3, << <<100, 101, 99, 97, 121>> >>),
              ToothEntry(30, << <<82, 111, 111, 116, 67, 97, 110, 97, 108>> >>),
              ToothEntry(32, << <<99, 111, 110, 115, 116, 114, 117, 99, 116, 111, 114>> >>),
              ToothEntry(1, << <<114, 111, 111, 116, 32, 32, 99, 97, 110, 97, 108>> >>) >> >>,
     procedures |->
        << << Procedure(<< <<104, 116, 116, 112>> >>),
              Procedure(<< <<112, 108, 97, 110, 110, 101, 100>> >>),
              Procedure(<< <<>> >>) >> >>,
     procedure_summary |->
        << [completed_procedures |-> <<>>, treatment_planned_procedures |-> <<>>] >>]

\* A chart without tooth chart, procedures and summary.
EmptyChart ==
    [teeth_with_conditions |-> <<>>, procedures |-> <<>>, procedure_summary |-> <<>>]

ChartPayloads == << FullChart, SparseChart, EmptyChart >>

Themes == {"light", "dark"}
Tabs == {"teeth", "procedures", "clinical"}
ProcFilters == {"all", "completed", "planned"}

\* toothChart.teeth_with_conditions ?? []
TeethConditions == OrElse(chartProps.chart.teeth_with_conditions, <<>>)

\* chart?.procedures ?? []
Procedures == OrElse(chartProps.chart.procedures, <<>>)

\* chart?.procedure_summary ?? {}
ProcSummary ==
    OrElse(chartProps.chart.procedure_summary,
           [completed_procedures |-> <<>>, treatment_planned_procedures |-> <<>>])

\* A tooth map that keeps the first entry of a tooth.
ToothMapFirstEntry(teethConditions) ==
    [n \in Teeth |->
        LET at == {k \in 1..Len(teethConditions) : teethConditions[k].tooth_number = n}
        IN  IF at = {} THEN <<>>
            ELSE << teethConditions[CHOOSE k \in at : \A m \in at : k <= m] >>]

\* toothMap: m[t.tooth_number] = t for each entry in turn, so a later entry of a tooth
\* replaces an earlier one; <<>> where the map has no entry.
ToothMap(teethConditions) ==
    [n \in Teeth |->
        LET at == {k \in 1..Len(teethConditions) : teethConditions[k].tooth_number = n}
        IN  IF at = {} THEN <<>>
            ELSE << teethConditions[CHOOSE k \in at : \A m \in at : k >= m] >>]

\* renderTooth(num): the condition, the color and the selection mark of the cell.
RenderTooth(num) ==
    LET data == ToothMap(TeethConditions)[num]
        condition == IF data = <<>> \/ data[1].condition = <<>>
                     THEN <<104, 101, 97, 108, 116, 104, 121>>
                     ELSE ToLowerCase(data[1].condition[1])
    IN  [condition |-> condition,
         color |-> GetConditionColor(condition, UseColors(chartProps.theme)),
         isSelected |-> (selectedTooth = num)]

\* selectedData = selectedTooth ? toothMap[selectedTooth] : null (null is written 0
\* for selectedTooth and <<>> for selectedData).
SelectedData ==
    IF selectedTooth # 0 THEN ToothMap(TeethConditions)[selectedTooth] ELSE <<>>

\* The detail panel is rendered on the teeth tab when selectedData is set:
\* "Tooth #<selectedTooth>" and the data of the entry.
DetailPanel ==
    IF chartTab = "teeth" /\ SelectedData # <<>>
    THEN << [tooth |-> selectedTooth, data |-> SelectedData[1]] >>
    ELSE <<>>

\* A filter whose "planned" only looks for "plan".
FilteredProcsPlanOnly(procedures, filter) ==
    IF filter = "all" THEN procedures
    ELSE SelectSeq(procedures,
            LAMBDA p :
               LET s == ToLowerCase(OrElse(p.status, <<>>))
               IN  IF filter = "completed" THEN Includes(s, <<99, 111, 109, 112, 108, 101, 116>>)
                   ELSE Includes(s, <<112, 108, 97, 110>>))

\* A filter that lists the matching procedures latest first.
FilteredProcsLatestFirst(procedures, filter) ==
    IF filter = "all" THEN procedures
    ELSE LET rows == SelectSeq(procedures,
                        LAMBDA p :
                           LET s == ToLowerCase(OrElse(p.status, <<>>))
                           IN  IF filter = "completed"
                               THEN Includes(s, <<99, 111, 109, 112, 108, 101, 116>>)
                               ELSE \/ Includes(s, <<112, 108, 97, 110>>)
                                    \/ Includes(s, <<116, 112>>))
         IN  [k \in 1..Len(rows) |-> rows[Len(rows) + 1 - k]]

\* filteredProcs
FilteredProcs(procedures, filter) ==
    IF filter = "all" THEN procedures
    ELSE SelectSeq(procedures,
            LAMBDA p :
               LET s == ToLowerCase(OrElse(p.status, <<>>))
               IN  IF filter = "completed" THEN Includes(s, <<99, 111, 109, 112, 108, 101, 116>>)
                   ELSE \/ Includes(s, <<112, 108, 97, 110>>)
                        \/ Includes(s, <<116, 112>>))

\* The number on a filter button: procedures.length for All, and
\* procSummary.completed_procedures ?? "-" or
\* procSummary.treatment_planned_procedures ?? "-" for the other two.
FilterCounter(f) ==
    IF f = "all" THEN << Len(Procedures) >>
    ELSE IF f = "completed" THEN ProcSummary.completed_procedures
    ELSE ProcSummary.treatment_planned_procedures

\* The tool result reaches the widget.
LoadChart(payload, theme) ==
    /\ chartProps.t = "pending"
    /\ chartProps' = [t |-> "props", chart |-> payload, theme |-> theme]
    /\ UNCHANGED <<chartTab, selectedTooth, procFilter>>
    /\ UNCHANGED <<srvVars, listVars, sent, reportVars>>

\* onClick of a tab button: setTab(t).
SetChartTab(t) ==
    /\ chartProps.t = "props"
    /\ chartTab' = t
    /\ UNCHANGED <<chartProps, selectedTooth, procFilter>>
    /\ UNCHANGED <<srvVars, listVars, sent, reportVars>>

\* A click that takes the selection away whichever tooth holds it.
ClickToothClearsAny(num) ==
    /\ chartProps.t = "props"
    /\ chartTab = "teeth"
    /\ selectedTooth' = (IF selectedTooth # 0 THEN 0 ELSE num)
    /\ UNCHANGED <<chartProps, chartTab, procFilter>>
    /\ UNCHANGED <<srvVars, listVars, sent, reportVars>>

\* onClick of a tooth cell: setSelectedTooth(isSelected ? null : num).
ClickTooth(num) ==
    /\ chartProps.t = "props"
    /\ chartTab = "teeth"
    /\ selectedTooth' = (IF RenderTooth(num).isSelected THEN 0 ELSE num)
    /\ UNCHANGED <<chartProps, chartTab, procFilter>>
    /\ UNCHANGED <<srvVars, listVars, sent, reportVars>>

\* onClick of a filter button of the procedures tab: setProcFilter(f).
SetProcFilter(f) ==
    /\ chartProps.t = "props"
    /\ chartTab = "procedures"
    /\ procFilter' = f
    /\ UNCHANGED <<chartProps, chartTab, selectedTooth>>
    /\ UNCHANGED <<srvVars, listVars, sent, reportVars>>

ChartNext ==
    \/ \E k \in 1..Len(ChartPayloads), theme \in Themes : LoadChart(ChartPayloads[k], theme)
    \/ \E t \in Tabs : SetChartTab(t)
    \/ \E num \in Teeth : ClickTooth(num)
    \/ \E f \in ProcFilters : SetProcFilter(f)

ChartSpec == ListInit /\ [][ChartNext]_vars

(***************************************************************************)
(* The patient report widget (src/resources/patient-report.tsx).           *)
(* reportProps is [t |-> "pending"] until the tool result arrives, and     *)
(* then holds props.report: the insurance plans and the transactions of    *)
(* the account, each transaction written as its place in the payload.      *)
(***************************************************************************)
ReportTabs == {"overview", "family", "insurance", "account", "treatment", "appointments"}

\* const perPage = 15
PerPage == 15

\* The most transactions of a payload.
MaxTransactions == 46

\* The numbers of transactions of the payloads: none, one, a full page, one more, two
\* pages and one more, and the most.
TransactionCounts == {0, 1, PerPage, PerPage + 1, 2 * PerPage + 1, MaxTransactions}

\* The plans of a payload: no plan, a plan without a carrier, and plans with the
\* carriers "", "Delta" and " ".
Plans ==
    << <<>>,
       << [carrier |-> <<>>] >>,
       << [carrier |-> << <<>> >>] >>,
       << [carrier |-> << <<68, 101, 108, 116, 97>> >>] >>,
       << [carrier |-> << <<32>> >>] >> >>

\* The insurance of a payload: none, or a primary and a secondary plan.
Insurances ==
    {<<>>} \cup {<< [primary |-> Plans[i], secondary |-> Plans[j]] >> :
                    i \in 1..Len(Plans), j \in 1..Len(Plans)}

\* report?.insurance ?? {}
Insurance == OrElse(reportProps.report.insurance, [primary |-> <<>>, secondary |-> <<>>])

\* account.transactions ?? []
Transactions == OrElse(reportProps.report.transactions, <<>>)

\* A plan card for every plan object, with or without a carrier.
RenderPlanOfAnyObject(plan, label) == IF plan = <<>> THEN <<>> ELSE <<label>>

\* renderPlan(plan, label): null when !plan || !plan.carrier, else the card.
RenderPlan(plan, label) ==
    IF plan = <<>> \/ Falsy(plan[1].carrier) THEN <<>> ELSE <<label>>

\* A placeholder condition that looks at the primary plan only.
NoCarrierOfPrimary(insurance) ==
    insurance.primary = <<>> \/ Falsy(insurance.primary[1].carrier)

\* !insurance.primary?.carrier && !insurance.secondary?.carrier
NoCarrier(insurance) ==
    /\ (insurance.primary = <<>> \/ Falsy(insurance.primary[1].carrier))
    /\ (insurance.secondary = <<>> \/ Falsy(insurance.secondary[1].carrier))

\* The cards of the insurance tab, in the order they are rendered.
RenderInsurance ==
    RenderPlan(Insurance.primary, "Primary Insurance")
    \o RenderPlan(Insurance.secondary, "Secondary Insurance")
    \o (IF NoCarrier(Insurance)
        THEN <<"No insurance information on file.">>
        ELSE <<>>)

\* What the tab area shows of the insurance cards: renderInsurance() on its tab only.
InsuranceCards == IF reportTab = "insurance" THEN RenderInsurance ELSE <<>>

\* A page count without the floor of one page.
AcctTotalPagesUnfloored == CeilDiv(Len(Transactions), PerPage)

\* totalPages = Math.max(1, Math.ceil(transactions.length / perPage))
AcctTotalPages ==
    IF CeilDiv(Len(Transactions), PerPage) < 1 THEN 1
    ELSE CeilDiv(Len(Transactions), PerPage)

\* safePage = Math.min(acctPage, totalPages)
AcctSafePage == IF acctPage < AcctTotalPages THEN acctPage ELSE AcctTotalPages

\* pageTx = transactions.slice((safePage - 1) * perPage, safePage * perPage)
PageTx ==
    LET from == (AcctSafePage - 1) * PerPage
        to == AcctSafePage * PerPage
    IN  SubSeq(Transactions, from + 1,
               IF to < Len(Transactions) THEN to ELSE Len(Transactions))

\* The tool result reaches the widget: n transactions and the insurance.
LoadReport(n, insurance) ==
    /\ reportProps.t = "pending"
    /\ reportProps' = [t |-> "props",
                       report |-> [insurance |-> insurance,
                                   transactions |-> << [k \in 1..n |-> k] >>]]
    /\ UNCHANGED <<reportTab, acctPage>>
    /\ UNCHANGED <<srvVars, listVars, sent, chartVars>>

\* onClick of a tab button: setTab(t).
SetReportTab(t) ==
    /\ reportProps.t = "props"
    /\ reportTab' = t
    /\ UNCHANGED <<reportProps, acctPage>>
    /\ UNCHANGED <<srvVars, listVars, sent, chartVars>>

\* The Prev button of the account tab: rendered when totalPages > 1, disabled when
\* safePage <= 1.
AcctPrev ==
    /\ reportProps.t = "props"
    /\ reportTab = "account"
    /\ AcctTotalPages > 1
    /\ ~(AcctSafePage <= 1)
    /\ acctPage' = AcctSafePage - 1
    /\ UNCHANGED <<reportProps, reportTab>>
    /\ UNCHANGED <<srvVars, listVars, sent, chartVars>>

\* The Next button of the account tab: rendered when totalPages > 1, disabled when
\* safePage >= totalPages.
AcctNext ==
    /\ reportProps.t = "props"
    /\ reportTab = "account"
    /\ AcctTotalPages > 1
    /\ ~(AcctSafePage >= AcctTotalPages)
    /\ acctPage' = AcctSafePage + 1
    /\ UNCHANGED <<reportProps, reportTab>>
    /\ UNCHANGED <<srvVars, listVars, sent, chartVars>>

ReportNext ==
    \/ \E n \in TransactionCounts, insurance \in Insurances : LoadReport(n, insurance)
    \/ \E t \in ReportTabs : SetReportTab(t)
    \/ AcctPrev
    \/ AcctNext

ReportSpec == ListInit /\ [][ReportNext]_vars

(***************************************************************************)
(* From the tool to the widget: the props of a get-patients result are     *)
(* what PatientListWidget renders (specification ScenarioSpec).            *)
(***************************************************************************)
\* The code units of the texts of the backend's patients.
CodeUnits(s) ==
    CASE s = "Jane" -> <<74, 97, 110, 101>>
      [] s = "Doe" -> <<68, 111, 101>>
      [] s = "Al" -> <<65, 108>>
      [] s = "Bo" -> <<66, 111>>
      [] s = "Reno" -> <<82, 101, 110, 111>>
      [] s = "active" -> <<97, 99, 116, 105, 118, 101>>
      [] s = "Completed" -> <<67, 111, 109, 112, 108, 101, 116, 101, 100>>
      [] s = "Crown" -> <<67, 114, 111, 119, 110>>

\* A field of a patient of the props that holds a text, or null.
TextField(p, key) ==
    IF Get(p, key).t = "str" THEN << CodeUnits(Get(p, key).s) >> ELSE <<>>

\* A patient of props.patients, as the widget reads it.
PropsPatient(p) ==
    Patient(CodeUnits(Get(p, "first_name").s), CodeUnits(Get(p, "last_name").s),
            IF Get(p, "age").t = "num" THEN << Get(p, "age").n >> ELSE <<>>,
            TextField(p, "wireless_phone"), TextField(p, "home_phone"),
            TextField(p, "work_phone"), TextField(p, "city"), TextField(p, "status"))

\* A pagination bar that is rendered for a single page too.
PaginationBarAlways == << [page |-> SafePage, of |-> TotalPages] >>

\* The pagination bar, "Page <safePage> of <totalPages>", rendered when
\* totalPages > 1.
PaginationBar ==
    IF TotalPages > 1 THEN << [page |-> SafePage, of |-> TotalPages] >> ELSE <<>>

\* The widget result of invocation i reaches the list widget: isPending ends and props
\* hold the patients of the result.
LoadResult(i) ==
    /\ isPending
    /\ inv[i].pc = "done"
    /\ inv[i].tool = "get-patients"
    /\ Len(inv[i].results) = 1
    /\ inv[i].results[1].kind = "widget"
    /\ inv[i].results[1].props.patients.t = "arr"
    /\ isPending' = FALSE
    /\ patients' = [k \in 1..Len(inv[i].results[1].props.patients.a) |->
                      PropsPatient(inv[i].results[1].props.patients.a[k])]
    /\ UNCHANGED <<search, sortKey, sortDir, page, srvVars, otherVars>>
    /\ Render

\* The bodies of the scenario's backend: the example's body, its bare payload, two
\* patients in an envelope and an empty object.
ScenarioBodies ==
    << Envelope(Payloads[1]), Payloads[1], Envelope(Payloads[2]), Obj(<<>>) >>

\* One invocation and the list widget that shows its result.
ScenarioNext ==
    \/ ServerNext({"a"}, ScenarioBodies)
    \/ LoadResult("a")
    \/ \E k \in {1, 2, 8} : SetSearch(Queries[k])
    \/ \E key \in SortKeys : ToggleSort(key)

ScenarioSpec == Init /\ [][ScenarioNext]_vars

(***************************************************************************)
(* The chart and report widgets over props held as JSON values, in which   *)
(* any part may be absent, null or partly populated (specification         *)
(* DefaultsSpec).  A render throws where the code reads a property of null *)
(* or undefined or calls a method the value does not have.                 *)
(***************************************************************************)
\* {}
EmptyObj == Obj(<<>>)

\* (x ?? "").toLowerCase() throws when x is neither null, undefined nor a string.
LowerThrows(x) == Coalesce(x, Str("")).t # "str"

\* xs.forEach(row => ...) or xs.map(row => ...) with reads of the fields of each row
\* throws when xs is not an array or when a row is null or undefined.
EachThrows(xs) ==
    \/ xs.t # "arr"
    \/ \E k \in 1..Len(xs.a) : ~CanRead(xs.a[k])

\* xs.filter(p => (p.status ?? "").toLowerCase()...) and the like: the rows are read
\* and their status is lower-cased.
EachStatusThrows(xs) ==
    \/ EachThrows(xs)
    \/ \E k \in 1..Len(xs.a) : LowerThrows(Get(xs.a[k], "status"))

\* xs.length === 0 for a value that is not null or undefined
IsEmpty(xs) == Get(xs, "length").t = "num" /\ Get(xs, "length").n = 0

\* The parts of a chart payload: each list holds absent first, then null, then
\* values that have only some of their fields or are empty.
ChartParts ==
    [patient_info |->
        << Undefined, Null, Obj([age |-> Num(42), allergies |-> Null]) >>,
     tooth_chart |->
        << Undefined, Null,
           Obj([teeth_with_conditions |->
                   Arr(<< Obj([tooth_number |-> Num(3)]),
                          Obj([tooth_number |-> Num(5), condition |-> Null]),
                          Obj([condition |-> Str("Crown")]),
                          Obj([tooth_number |-> Num(9), condition |-> Str("Crown")]) >>)]),
           Obj([teeth_with_conditions |-> Null,
                quadrant_summary |-> Obj([upper_right |-> Str("Reno"),
                                          upper_left |-> Null])]),
           EmptyObj >>,
     procedures |->
        << Undefined, Null,
           Arr(<< EmptyObj,
                  Obj([status |-> Null, amount |-> Null]),
                  Obj([status |-> Str("Completed"), amount |-> Num(10)]) >>),
           Arr(<<>>) >>,
     procedure_summary |->
        << Undefined, Null,
           Obj([total_procedures |-> Num(3)]),
           Obj([procedures_by_type |-> Obj([exams |-> Num(1)]),
                total_charges |-> Null]) >>,
     clinical_explanation |->
        << Undefined, Null, Obj([notes |-> Str("Reno"), risk_factors |-> Null]) >>,
     summary |->
        << Undefined, Null, Obj([primary_provider |-> Str("Doe")]) >>]

\* The choices of one value for each part: every combination of absent, null and the
\* first partly populated value, and each further value of a part on its own.
ChoicesOf(parts) ==
    [DOMAIN parts -> 1..3]
    \cup UNION {{[p \in DOMAIN parts |-> IF p = q THEN v ELSE 1] : v \in 4..Len(parts[q])} :
                  q \in DOMAIN parts}

\* The payload of the choice: an object with the parts whose value is not undefined
\* (undefined stands for an absent key).
PayloadOf(parts, c) ==
    Obj([k \in {p \in DOMAIN parts : parts[p][c[p]].t # "undefined"} |-> parts[k][c[k]]])

\* A chart widget that reads the tooth chart without a fallback:
\* toothChart = chart?.tooth_chart.
ChartDefaultsNoToothChartFallback(props) ==
    LET chart == Coalesce(OptGet(props, "chart"), EmptyObj)
        toothChart == OptGet(chart, "tooth_chart")
    IN  [chart |-> chart,
         info |-> Coalesce(OptGet(chart, "patient_info"), EmptyObj),
         toothChart |-> toothChart,
         teethConditions |-> Coalesce(OptGet(toothChart, "teeth_with_conditions"), Arr(<<>>)),
         procedures |-> Coalesce(OptGet(chart, "procedures"), Arr(<<>>)),
         procSummary |-> Coalesce(OptGet(chart, "procedure_summary"), EmptyObj),
         clinical |-> Coalesce(OptGet(chart, "clinical_explanation"), EmptyObj),
         summary |-> Coalesce(OptGet(chart, "summary"), EmptyObj),
         quadrants |-> Coalesce(OptGet(toothChart, "quadrant_summary"), EmptyObj)]

\* chart, info, toothChart, teethConditions, procedures, procSummary, clinical,
\* summary and quadrants with their fallbacks.  toothChart.teeth_with_conditions
\* and toothChart.quadrant_summary are plain reads of toothChart: OptGet gives the
\* value they have when toothChart can be read, and ChartThrows tells when not.
ChartDefaults(props) ==
    LET chart == Coalesce(OptGet(props, "chart"), EmptyObj)
        toothChart == Coalesce(OptGet(chart, "tooth_chart"), EmptyObj)
    IN  [chart |-> chart,
         info |-> Coalesce(OptGet(chart, "patient_info"), EmptyObj),
         toothChart |-> toothChart,
         teethConditions |-> Coalesce(OptGet(toothChart, "teeth_with_conditions"), Arr(<<>>)),
         procedures |-> Coalesce(OptGet(chart, "procedures"), Arr(<<>>)),
         procSummary |-> Coalesce(OptGet(chart, "procedure_summary"), EmptyObj),
         clinical |-> Coalesce(OptGet(chart, "clinical_explanation"), EmptyObj),
         summary |-> Coalesce(OptGet(chart, "summary"), EmptyObj),
         quadrants |-> Coalesce(OptGet(toothChart, "quadrant_summary"), EmptyObj)]

\* An entry of teeth_with_conditions as the tooth map keeps it (an entry without a
\* number goes under a key that is no tooth, written 0).
JsonToothEntry(e) ==
    ToothEntry(IF Get(e, "tooth_number").t = "num" THEN Get(e, "tooth_number").n ELSE 0,
               IF Get(e, "condition").t = "str"
               THEN << CodeUnits(Get(e, "condition").s) >> ELSE <<>>)

\* A procedure as the filter reads it.
JsonProcedure(p) ==
    Procedure(IF Get(p, "status").t = "str" THEN << CodeUnits(Get(p, "status").s) >> ELSE <<>>)

\* What the component body and the tab `tab` throw for the props: the reads of
\* toothChart, the forEach of the tooth map, the filter of filteredProcs, and the
\* reads and calls of renderToothGrid, renderProcedures and renderClinical.
ChartThrows(props, tab, filter) ==
    LET d == ChartDefaults(props)
    IN  \/ ~CanRead(d.toothChart)
        \/ EachThrows(d.teethConditions)
        \/ filter # "all" /\ EachStatusThrows(d.procedures)
        \/ ~CanRead(d.info) \/ ~CanRead(d.summary)
        \/ tab = "teeth"
           /\ \/ \E k \in 1..Len(d.teethConditions.a) :
                    LET c == Get(d.teethConditions.a[k], "condition")
                    IN  CanRead(c) /\ c.t # "str"
              \/ ~CanRead(d.quadrants)
        \/ tab = "procedures"
           /\ \/ ~CanRead(d.procedures) \/ ~CanRead(d.procSummary)
              \/ ~IsEmpty(d.procedures) /\ EachStatusThrows(d.procedures)
        \/ tab = "clinical" /\ ~CanRead(d.clinical)

\* What the tab shows of the collections of the props, when the render does not
\* throw: the teeth with an entry, the procedure rows and their placeholder, the
\* quadrant cards, the sections of the clinical notes, and the summary values with
\* their placeholder (s.val ?? "-", the dash written in ASCII).
ChartShows(props, tab, filter) ==
    LET d == ChartDefaults(props)
        entries == [k \in 1..Len(d.teethConditions.a) |-> JsonToothEntry(d.teethConditions.a[k])]
        procs == [k \in 1..Len(d.procedures.a) |-> JsonProcedure(d.procedures.a[k])]
        rows == FilteredProcs(procs, filter)
        notes == {"overall_dental_health", "teeth_assessment", "treatment_history",
                  "treatment_needs", "periodontal_status", "risk_factors",
                  "recommendations", "notes"}
    IN  CASE tab = "teeth" ->
               [cells |-> Cardinality(Teeth),
                entries |-> {n \in Teeth : ToothMap(entries)[n] # <<>>},
                quadrants |-> IF d.quadrants.t = "obj" /\ DOMAIN d.quadrants.f # {}
                              THEN 4 ELSE 0]
          [] tab = "procedures" ->
               [counter |-> Len(procs),
                rows |-> Len(rows),
                placeholder |-> IF Len(rows) = 0 THEN <<"No procedures found.">> ELSE <<>>,
                total |-> Coalesce(Get(d.procSummary, "total_procedures"), Str("-")),
                exams |-> Coalesce(OptGet(Get(d.procSummary, "procedures_by_type"), "exams"),
                                   Str("-"))]
          [] tab = "clinical" ->
               [sections |-> Cardinality({s \in notes : Truthy(Get(d.clinical, s))})]

\* The tool result reaches the chart widget, as a JSON value.
LoadChartJson(c) ==
    /\ chartProps.t = "pending" /\ reportProps.t = "pending"
    /\ chartProps' = [t |-> "props",
                      props |-> Obj([chart |-> PayloadOf(ChartParts, c),
                                     patientName |-> Str("Jane Doe")]),
                      theme |-> "light"]
    /\ UNCHANGED <<chartTab, selectedTooth, procFilter>>
    /\ UNCHANGED <<srvVars, listVars, sent, reportVars>>

\* The parts of a report payload, absent first, then null, then partly populated.
ReportParts ==
    [patient_info |->
        << Undefined, Null,
           Obj([first_name |-> Str("Jane"), address |-> Null,
                contact |-> Obj([email |-> Null])]) >>,
     family_members |->
        << Undefined, Null, Arr(<< Obj([name |-> Str("Al")]), EmptyObj >>) >>,
     insurance |->
        << Undefined, Null,
           Obj([primary |-> Obj([carrier |-> Str("Doe")]), secondary |-> Null]),
           Obj([secondary |-> Obj([carrier |-> Str("Doe"),
                                   coverage_percentages |-> Obj([basic |-> Null])])]) >>,
     recall |->
        << Undefined, Null, Obj([type |-> Str("Reno")]) >>,
     account |->
        << Undefined, Null,
           Obj([transactions |-> Arr(<< Obj([date |-> Str("Reno")]), EmptyObj >>),
                claims |-> Null,
                balances |-> Obj([family_balances |-> Arr(<< EmptyObj >>)])]),
           Obj([balances |-> Null, claims |-> Arr(<< Obj([status |-> Null]) >>)]) >>,
     treatment_plans |->
        << Undefined, Null,
           Obj([active_plans |-> Arr(<< EmptyObj >>), procedures |-> Null,
                insurance_benefits |-> Obj([primary |-> EmptyObj, secondary |-> Null])]),
           Obj([procedures |-> Arr(<< Obj([done |-> Null]) >>), totals |-> Null]) >>,
     appointments |->
        << Undefined, Null,
           Obj([past_appointments |-> Arr(<< Obj([status |-> Null]),
                                             Obj([status |-> Str("Completed")]) >>),
                next_appointment |-> Null]),
           Obj([next_appointment |-> Obj([date |-> Str("Reno")]),
                scheduled_appointments |-> Arr(<< EmptyObj >>)]) >>,
     summary |->
        << Undefined, Null, Obj([pending_insurance_claims |-> Num(2)]) >>]

\* const { report, patientName } = props, and info, family, insurance, recall,
\* account, treatments, appointments and summary with their fallbacks.
ReportDefaults(props) ==
    LET report == Get(props, "report")
    IN  [report |-> report,
         info |-> Coalesce(OptGet(report, "patient_info"), EmptyObj),
         family |-> Coalesce(OptGet(report, "family_members"), Arr(<<>>)),
         insurance |-> Coalesce(OptGet(report, "insurance"), EmptyObj),
         recall |-> Coalesce(OptGet(report, "recall"), EmptyObj),
         account |-> Coalesce(OptGet(report, "account"), EmptyObj),
         treatments |-> Coalesce(OptGet(report, "treatment_plans"), EmptyObj),
         appointments |-> Coalesce(OptGet(report, "appointments"), EmptyObj),
         summary |-> Coalesce(OptGet(report, "summary"), EmptyObj)]

\* xs.length === 0 ? placeholder : xs.map(row => ...reads of row...)
TableThrows(xs) == ~CanRead(xs) \/ (~IsEmpty(xs) /\ EachThrows(xs))

\* xs.length > 0 && xs.map(row => ...reads of row...)
ListThrows(xs) ==
    \/ ~CanRead(xs)
    \/ Get(xs, "length").t = "num" /\ Get(xs, "length").n > 0
       /\ EachThrows(xs)

\* apptTable(rows, columns): statusColor(a.status) for each row.
ApptTableThrows(rows) ==
    \/ ~CanRead(rows)
    \/ ~IsEmpty(rows) /\ EachStatusThrows(rows)

\* What the component body, the header and the tab `tab` throw for the props.
ReportThrows(props, tab) ==
    LET d == ReportDefaults(props)
        account == d.account
        treatments == d.treatments
        appointments == d.appointments
    IN  \/ ~CanRead(props)
        \/ ~CanRead(d.summary)
        \/ ~CanRead(d.family)
        \/ tab = "overview" /\ (~CanRead(d.info) \/ ~CanRead(d.recall))
        \/ tab = "family" /\ TableThrows(d.family)
        \/ tab = "insurance" /\ ~CanRead(d.insurance)
        \/ tab = "account"
           /\ \/ ~CanRead(account)
              \/ Coalesce(Get(account, "transactions"), Arr(<<>>)).t \notin {"arr", "str"}
              \/ TableThrows(Coalesce(Get(account, "transactions"), Arr(<<>>)))
              \/ ListThrows(Coalesce(Get(account, "claims"), Arr(<<>>)))
              \/ LET fbs == OptGet(Coalesce(Get(account, "balances"), EmptyObj),
                                   "family_balances")
                 IN  CanRead(fbs) /\ ListThrows(fbs)
        \/ tab = "treatment"
           /\ \/ ~CanRead(treatments)
              \/ ListThrows(Coalesce(Get(treatments, "active_plans"), Arr(<<>>)))
              \/ TableThrows(Coalesce(Get(treatments, "procedures"), Arr(<<>>)))
        \/ tab = "appointments"
           /\ \/ ~CanRead(appointments)
              \/ ApptTableThrows(Coalesce(Get(appointments, "scheduled_appointments"),
                                          Arr(<<>>)))
              \/ ApptTableThrows(Coalesce(Get(appointments, "past_appointments"), Arr(<<>>)))

\* The number of rows of a table and the placeholder it shows instead of rows.
TableOf(xs, placeholder) ==
    [rows |-> Len(xs.a), placeholder |-> IF Len(xs.a) = 0 THEN <<placeholder>> ELSE <<>>]

\* What the tab shows of the collections of the props, when the render does not
\* throw.
ReportShows(props, tab) ==
    LET d == ReportDefaults(props)
        plan(key) == LET p == Get(d.insurance, key)
                     IN  IF Truthy(p) /\ Truthy(Get(p, "carrier")) THEN <<key>> ELSE <<>>
    IN  CASE tab = "overview" ->
               [name |-> Truthy(Get(d.info, "first_name")),
                recall |-> Truthy(Get(d.recall, "type"))]
          [] tab = "family" -> TableOf(d.family, "No family members found.")
          [] tab = "insurance" ->
               [cards |-> plan("primary") \o plan("secondary"),
                placeholder |->
                   IF ~Truthy(OptGet(Get(d.insurance, "primary"), "carrier"))
                      /\ ~Truthy(OptGet(Get(d.insurance, "secondary"), "carrier"))
                   THEN <<"No insurance information on file.">> ELSE <<>>]
          [] tab = "account" ->
               [transactions |->
                   TableOf(Coalesce(Get(d.account, "transactions"), Arr(<<>>)),
                           "No transactions."),
                claims |-> Len(Coalesce(Get(d.account, "claims"), Arr(<<>>)).a)]
          [] tab = "treatment" ->
               [procedures |->
                   TableOf(Coalesce(Get(d.treatments, "procedures"), Arr(<<>>)),
                           "No treatment procedures."),
                plans |-> Len(Coalesce(Get(d.treatments, "active_plans"), Arr(<<>>)).a)]
          [] tab = "appointments" ->
               [scheduled |->
                   TableOf(Coalesce(Get(d.appointments, "scheduled_appointments"), Arr(<<>>)),
                           "None."),
                past |->
                   TableOf(Coalesce(Get(d.appointments, "past_appointments"), Arr(<<>>)),
                           "None."),
                next |-> Truthy(OptGet(Get(d.appointments, "next_appointment"), "date"))]

\* The tool result reaches the report widget, as a JSON value.
LoadReportJson(c) ==
    /\ chartProps.t = "pending" /\ reportProps.t = "pending"
    /\ reportProps' = [t |-> "props",
                       props |-> Obj([report |-> PayloadOf(ReportParts, c),
                                      patientName |-> Str("Jane Doe")])]
    /\ UNCHANGED <<reportTab, acctPage>>
    /\ UNCHANGED <<srvVars, listVars, sent, chartVars>>

DefaultsNext ==
    \/ chartProps.t = "pending" /\ \E c \in ChoicesOf(ChartParts) : LoadChartJson(c)
    \/ \E t \in Tabs : SetChartTab(t)
    \/ \E f \in ProcFilters : SetProcFilter(f)
    \/ reportProps.t = "pending" /\ \E c \in ChoicesOf(ReportParts) : LoadReportJson(c)
    \/ \E t \in ReportTabs : SetReportTab(t)

DefaultsSpec == ListInit /\ [][DefaultsNext]_vars

(***************************************************************************)
(* Properties of the tool invocations.                                     *)
(***************************************************************************)
Done(i) == inv[i].pc = "done"

InFlight(i) == inv[i].pc \in {"fetching", "reading"}

IsWidget(i) == Done(i) /\ Len(inv[i].results) = 1 /\ inv[i].results[1].kind = "widget"

IsError(i) == Done(i) /\ Len(inv[i].results) = 1 /\ inv[i].results[1].kind = "error"

Contains(msg, piece) == \E k \in 1..Len(msg) : msg[k] = piece

\* The body was read to its end and parsed as JSON.
Parsed(i) == inv[i].recv = "complete" /\ inv[i].body.t # "malformed"

\* The key of the sub-object a tool promises.
SubObjectKey(tool) ==
    CASE tool = "get-patients" -> "patients"
      [] tool = "get-patient-chart" -> "patient_chart"
      [] tool = "get-reports" -> "patient_report"

\* The parsed body, or its data envelope when it has one, holds an object or an
\* array under `key`.
HasSubObject(body, key) ==
    /\ body.t = "obj"
    /\ LET inner == IF "data" \in DOMAIN body.f /\ body.f["data"].t \notin {"null", "undefined"}
                    THEN body.f["data"] ELSE body
       IN  /\ inner.t = "obj"
           /\ key \in DOMAIN inner.f
           /\ inner.f[key].t \in {"obj", "arr"}

\* C1: once a call's request is out and its deadline has passed, the call has either
\* settled before (timer cleared) or its timer has fired and aborted the request; an
\* aborted call that has not settled yet can only reject; an aborted call ends with
\* the error result 'Failed to fetch ...: <abort message>'; and a widget payload is
\* only ever built from a body that was read to its end, no later than the deadline,
\* by a call that was not aborted.
C1_TimeoutAbortsAndNeverPartial ==
    \A i \in Invocations :
        /\ (inv[i].requests = 1 /\ now > inv[i].deadline /\ inv[i].timer # "cleared")
              => (inv[i].timer = "fired" /\ inv[i].aborted)
        /\ (inv[i].aborted /\ InFlight(i)) => ENABLED AbortReject(i)
        /\ (inv[i].aborted /\ Done(i))
              => /\ IsError(i)
                 /\ inv[i].results[1].message
                      = <<FailPrefix(inv[i].tool), "This operation was aborted">>
        /\ IsWidget(i)
              => (inv[i].recv = "complete" /\ inv[i].inTime /\ ~inv[i].aborted)

\* A call timed out after part of its body had arrived, and ended with an error.
C1_Witness ==
    \E i \in Invocations :
        /\ Done(i) /\ inv[i].aborted /\ inv[i].recv = "partial"
        /\ now > inv[i].deadline
        /\ IsError(i)

\* C2: a response with status >= 400 ends the invocation, of any tool, with one error
\* result whose message holds the status code and the status text.
C2_HttpErrorCarriesStatus ==
    \A i \in Invocations :
        inv[i].res.status >= 400
          => /\ IsError(i)
             /\ Contains(inv[i].results[1].message, ToString(inv[i].res.status))
             /\ inv[i].res.statusText # ""
                  => Contains(inv[i].results[1].message, inv[i].res.statusText)
             /\ inv[i].results[1].message[1] = FailPrefix(inv[i].tool)

\* get-reports got a 404 and returned an error.
C2_Witness ==
    \E i \in Invocations :
        /\ inv[i].tool = "get-reports" /\ inv[i].res.status = 404
        /\ IsError(i)

\* C3: for get-patient-chart and get-reports, every parsed body without the chart /
\* report sub-object gives exactly the tool's 'No ... data returned for this patient.'
\* message.
C3_MissingSubObjectSpecificMessage ==
    \A i \in Invocations :
        (/\ Done(i) /\ Parsed(i)
         /\ inv[i].tool \in {"get-patient-chart", "get-reports"}
         /\ ~HasSubObject(inv[i].body, SubObjectKey(inv[i].tool)))
          => /\ IsError(i)
             /\ inv[i].results[1].message
                  = IF inv[i].tool = "get-patient-chart"
                    THEN <<"No chart data returned for this patient.">>
                    ELSE <<"No report data returned for this patient.">>

\* C4 as claimed: every finished invocation has issued exactly one request.
C4_ExactlyOneRequest ==
    \A i \in Invocations : Done(i) => inv[i].requests = 1

\* C4, amended: an invocation never issues a second request; it has issued exactly
\* one from the moment fetch is called, and a finished invocation has issued one
\* exactly when the request URL could be built (none when new URL threw).
C4_AtMostOneRequest ==
    \A i \in Invocations :
        /\ inv[i].requests <= 1
        /\ InFlight(i) => inv[i].requests = 1
        /\ Done(i) => inv[i].requests = (IF baseUrlValid THEN 1 ELSE 0)
        /\ (Done(i) /\ ~baseUrlValid) => IsError(i)

\* An invocation failed on the network and had issued its one request.
C4_Witness ==
    \E i \in Invocations :
        /\ IsError(i) /\ inv[i].requests = 1
        /\ Contains(inv[i].results[1].message, "fetch failed")

\* C5: an invocation has no result while it runs and exactly one when it is done,
\* which is a widget payload with its text summary or an error message, never an
\* exception leaving the handler; a widget payload is only produced when callBackend
\* returned parsed JSON (no abort, a 2xx status, a complete well-formed body).
C5_OneResultWidgetOrError ==
    \A i \in Invocations :
        /\ Len(inv[i].results) = (IF Done(i) THEN 1 ELSE 0)
        /\ Done(i)
             => /\ inv[i].results[1].kind \in {"widget", "error"}
                /\ inv[i].results[1].kind = "widget"
                     => /\ DOMAIN inv[i].results[1] = {"kind", "props", "output"}
                        /\ Len(inv[i].results[1].output) > 0
                /\ inv[i].results[1].kind = "error"
                     => DOMAIN inv[i].results[1] = {"kind", "message"}
        /\ IsWidget(i)
             => /\ baseUrlValid /\ ~inv[i].aborted
                /\ ResOk(inv[i].res.status)
                /\ Parsed(i)

\* A malformed body ended the invocation with an error result.
C5_Witness ==
    \E i \in Invocations :
        /\ inv[i].recv = "complete" /\ inv[i].body.t = "malformed"
        /\ IsError(i)
        /\ inv[i].results[1].message[1] = FailPrefix(inv[i].tool)

\* C6 as claimed: for each of the three tools a parsed body without the promised
\* sub-object gives an error result.
C6_MissingSubObjectIsError ==
    \A i \in Invocations :
        (Done(i) /\ Parsed(i) /\ ~HasSubObject(inv[i].body, SubObjectKey(inv[i].tool)))
          => IsError(i)

\* C6, amended: for get-patient-chart and get-reports a parsed body without the chart
\* / report gives an error result; get-patients gives an error only for the body
\* null, and for every other parsed body without a patient collection a widget
\* payload with an empty patient list.
C6_MissingSubObjectByTool ==
    \A i \in Invocations :
        (Done(i) /\ Parsed(i) /\ ~HasSubObject(inv[i].body, SubObjectKey(inv[i].tool)))
          => IF inv[i].tool = "get-patients" /\ inv[i].body.t # "null"
             THEN /\ IsWidget(i)
                  /\ inv[i].results[1].props.patients = Arr(<<>>)
             ELSE IsError(i)

\* get-patient-chart got {data: {patient_chart: null}} and returned an error.
C6_Witness ==
    \E i \in Invocations :
        /\ inv[i].tool = "get-patient-chart" /\ Parsed(i)
        /\ inv[i].body = Envelope(Obj([patient_chart |-> Null]))
        /\ IsError(i)

\* C7: a step changes the state of at most one invocation, and a call is only ever
\* aborted by its own timer.
C7_InvocationsIndependent ==
    [][ /\ \A i, j \in Invocations :
              (i # j /\ inv'[i] # inv[i]) => inv'[j] = inv[j]
        /\ \A j \in Invocations : inv'[j].aborted => inv'[j].timer = "fired" ]_vars

\* One invocation timed out while the other, started no earlier, returned a widget.
C7_Witness ==
    \E i, j \in Invocations :
        /\ i # j
        /\ Done(i) /\ inv[i].aborted /\ IsError(i)
        /\ IsWidget(j) /\ inv[j].deadline >= inv[i].deadline

(***************************************************************************)
(* Properties of the patient list widget.                                  *)
(***************************************************************************)
\* The least number of pages of `size` rows that hold n rows.
PagesFor(n, size) == CHOOSE m \in 0..n : m * size >= n /\ (m = 0 \/ (m - 1) * size < n)

\* C8: whatever was typed, clicked and paged, the page shown lies in
\* [1, max(1, ceil(N / 10))] for the N rows that pass the filter, and it starts inside
\* the filtered rows unless there are none.
C8_SafePageInRange ==
    LET N == Len(filtered)
        last == IF PagesFor(N, 10) < 1 THEN 1 ELSE PagesFor(N, 10)
    IN  /\ SafePage >= 1
        /\ SafePage <= last
        /\ (N > 0 => (SafePage - 1) * 10 < N)

\* A search text has cut the rows down to two pages and the second one is shown.
C8_Witness ==
    /\ search # <<>>
    /\ Len(filtered) < Len(patients)
    /\ Len(filtered) > 10
    /\ page = 2 /\ SafePage = 2

\* The place of row x in a list of rows (0 when it is not in it).
PlaceIn(list, x) ==
    IF \E k \in 1..Len(list) : list[k] = x
    THEN CHOOSE k \in 1..Len(list) : list[k] = x
    ELSE 0

\* Two lists of rows hold the same rows, and any two rows that do not tie on the sort
\* key come in the same order in both.
SameUpToTies(ps, fs, sf, key, dir) ==
    /\ Len(fs) = Len(sf)
    /\ {fs[k] : k \in 1..Len(fs)} = {sf[k] : k \in 1..Len(sf)}
    /\ \A a, b \in 1..Len(fs) :
          (a < b /\ Compare(SortValue(ps[fs[a]], key), SortValue(ps[fs[b]], key), key, dir) # 0)
             => PlaceIn(sf, fs[a]) < PlaceIn(sf, fs[b])

\* C9: filtering the filtered rows again by the same text changes nothing, and
\* filter-then-sort and sort-then-filter give the same rows, in the same order except
\* possibly among rows that tie on the sort key.
C9_FilterIdempotentCommutesWithSort ==
    /\ filtered = FilterList(patients, Ids(patients), search)
    /\ FilterList(patients, filtered, search) = filtered
    /\ sorted = SortList(patients, filtered, sortKey, sortDir)
    /\ SameUpToTies(patients,
                    SubSeq(sorted, 1, Len(sorted)),
                    FilterList(patients,
                               SortList(patients, Ids(patients), sortKey, sortDir),
                               search),
                    sortKey, sortDir)

\* A search text keeps some rows and drops others, and sorting by age, descending,
\* reorders the rows that are kept.
C9_Witness ==
    /\ search # <<>>
    /\ Len(filtered) > 10
    /\ Len(filtered) < Len(patients)
    /\ sortKey = "age" /\ sortDir = "desc"
    /\ sorted # filtered

\* The first non-empty phone of a patient, in the order wireless, home, work (the
\* empty string when there is none).
FirstPhone(p) ==
    LET phones == <<p.wireless_phone, p.home_phone, p.work_phone>>
        nonEmpty == {j \in 1..3 : phones[j] # <<>> /\ phones[j] # << <<>> >>}
    IN  IF nonEmpty = {} THEN <<>>
        ELSE phones[CHOOSE j \in nonEmpty : \A h \in nonEmpty : j <= h][1]

\* The claimed rule: q is empty, or the lower-cased q is part of the lower-cased
\* 'first_name last_name', city, or first non-empty phone.
ClaimedMatch(p, text) ==
    \/ text = <<>>
    \/ Includes(ToLowerCase(p.first_name \o <<32>> \o p.last_name), ToLowerCase(text))
    \/ (p.city # <<>> /\ Includes(ToLowerCase(p.city[1]), ToLowerCase(text)))
    \/ (FirstPhone(p) # <<>> /\ Includes(ToLowerCase(FirstPhone(p)), ToLowerCase(text)))

\* A phone of p holds the text, but is not p's first non-empty phone.
OnlyLaterPhoneHolds(p, text) ==
    /\ text # <<>>
    /\ ~ClaimedMatch(p, text)
    /\ \E x \in {p.wireless_phone, p.home_phone, p.work_phone} :
          x # <<>> /\ Includes(ToLowerCase(x[1]), ToLowerCase(text))

\* C10: a patient is among the filtered rows exactly when the claimed rule holds for
\* the search text, and the filtered rows keep the payload's order.
C10_FilterRule ==
    /\ \A k \in 1..Len(patients) :
          (PlaceIn(filtered, k) # 0) <=> ClaimedMatch(patients[k], search)
    /\ \A a, b \in 1..Len(filtered) : a < b => filtered[a] < filtered[b]

\* The text is held by a later phone of some patient only, and that patient is
\* dropped, while another patient is kept for its first non-empty phone.
C10_Witness ==
    /\ \E k \in 1..Len(patients) :
          /\ OnlyLaterPhoneHolds(patients[k], search)
          /\ PlaceIn(filtered, k) = 0
    /\ \E k \in 1..Len(patients) :
          /\ PlaceIn(filtered, k) # 0
          /\ Includes(FirstPhone(patients[k]), search)

(***************************************************************************)
(* C11: the order of the list.                                             *)
(***************************************************************************)
\* One letter without its case: 'a'..'z' (97..122) are read as 'A'..'Z'.
FoldCase(c) == IF c >= 97 /\ c <= 122 THEN c - 32 ELSE c

\* The first place where a and b differ without regard to case, or 0 when they are
\* the same text without regard to case.
FirstDifference(a, b) ==
    LET n == IF Len(a) < Len(b) THEN Len(a) ELSE Len(b)
        d == {k \in 1..n : FoldCase(a[k]) # FoldCase(b[k])}
    IN  IF d # {} THEN CHOOSE k \in d : \A m \in d : k <= m
        ELSE IF Len(a) = Len(b) THEN 0 ELSE n + 1

\* -1, 0 or 1: text a is before, level with or after text b in the dictionary,
\* without regard to case.
DictionaryOrder(a, b) ==
    LET k == FirstDifference(a, b)
    IN  IF k = 0 THEN 0
        ELSE IF k > Len(a) THEN -1
        ELSE IF k > Len(b) THEN 1
        ELSE IF FoldCase(a[k]) < FoldCase(b[k]) THEN -1 ELSE 1

\* -1, 0 or 1: how patients p and q stand on the key (a missing age counts as 0, a
\* missing city or status as the empty text).
KeyOrder(p, q, key) ==
    IF key = "age"
    THEN LET x == IF p.age = <<>> THEN 0 ELSE p.age[1]
             y == IF q.age = <<>> THEN 0 ELSE q.age[1]
         IN  IF x < y THEN -1 ELSE IF x > y THEN 1 ELSE 0
    ELSE IF key \in {"last_name", "first_name"} THEN DictionaryOrder(p[key], q[key])
    ELSE DictionaryOrder(IF p[key] = <<>> THEN <<>> ELSE p[key][1],
                         IF q[key] = <<>> THEN <<>> ELSE q[key][1])

\* C11: the list holds the rows that pass the filter, each once, ordered by the
\* active sort key: without regard to case and by the dictionary for last_name,
\* first_name, city and status, by number for age, upwards for asc and downwards for
\* desc; rows that tie on the key stand in their payload order in both directions.
C11_OrderedByKeyStableTies ==
    /\ Len(sorted) = Len(filtered)
    /\ \A k \in 1..Len(filtered) : \E m \in 1..Len(sorted) : sorted[m] = filtered[k]
    /\ \A i \in 1..Len(sorted) : \A j \in (i + 1)..Len(sorted) :
          LET o == KeyOrder(patients[sorted[i]], patients[sorted[j]], sortKey)
          IN  /\ (sortDir = "asc" => o <= 0)
              /\ (sortDir = "desc" => o >= 0)
              /\ (o = 0 => sorted[i] < sorted[j])

\* A descending list of more than a page in which two rows that differ only in case
\* tie and keep their payload order, and two other rows are out of payload order.
C11_Witness ==
    /\ sortDir = "desc"
    /\ sortKey = "first_name"
    /\ Len(sorted) > 10
    /\ \E i \in 1..Len(sorted) : \E j \in (i + 1)..Len(sorted) :
          /\ patients[sorted[i]].first_name # patients[sorted[j]].first_name
          /\ KeyOrder(patients[sorted[i]], patients[sorted[j]], sortKey) = 0
    /\ \E i \in 1..Len(sorted) : \E j \in (i + 1)..Len(sorted) : sorted[i] > sorted[j]

(***************************************************************************)
(* C12: the column headers.                                                *)
(***************************************************************************)
\* C12: the widget starts sorted by (last_name, asc); a click on the header of the
\* current sort key keeps the key and flips the direction between asc and desc; a
\* click on the header of another key makes it the sort key with direction asc,
\* whatever the direction was.
C12_ToggleSortFlipsOrResets ==
    /\ (sortKey = "last_name" /\ sortDir = "asc")
    /\ [][\A key \in SortKeys :
            ToggleSort(key) =>
               /\ sortKey' = key
               /\ (sortKey = key =>
                     sortDir' = (IF sortDir = "asc" THEN "desc" ELSE "asc"))
               /\ (sortKey # key => sortDir' = "asc")]_vars

\* A header other than the first was clicked and clicked again: the list is sorted
\* by it, downwards.
C12_Witness ==
    /\ sortKey = "city"
    /\ sortDir = "desc"
    /\ Len(sorted) > 1

(***************************************************************************)
(* C13: the row actions.                                                   *)
(***************************************************************************)
\* "Show the dental chart for " and "Show the full report for "
ChartRequest == <<83, 104, 111, 119, 32, 116, 104, 101, 32, 100, 101, 110, 116, 97,
                  108, 32, 99, 104, 97, 114, 116, 32, 102, 111, 114, 32>>
ReportRequest == <<83, 104, 111, 119, 32, 116, 104, 101, 32, 102, 117, 108, 108, 32,
                   114, 101, 112, 111, 114, 116, 32, 102, 111, 114, 32>>

\* The text names a patient shown on the current page, as <first> <last>, after one
\* of the two requests.
NamesShownRow(text) ==
    \E r \in 1..Len(PageData) : \E request \in {ChartRequest, ReportRequest} :
        LET p == patients[PageData[r]]
        IN  text = request \o p.first_name \o <<32>> \o p.last_name

ConditionTable ==
    << [label |-> <<104, 101, 97, 108, 116, 104, 121>>, color |-> "healthy"],
       [label |-> <<109, 105, 115, 115, 105, 110, 103>>, color |-> "missing"],
       [label |-> <<99, 114, 111, 119, 110>>, color |-> "crown"],
       [label |-> <<102, 105, 108, 108, 105, 110, 103>>, color |-> "filling"],
       [label |-> <<100, 101, 99, 97, 121>>, color |-> "decay"],
       [label |-> <<114, 111, 111, 116, 32, 99, 97, 110, 97, 108>>, color |-> "rootCanal"],
       [label |-> <<105, 109, 112, 108, 97, 110, 116>>, color |-> "implant"] >>

\* The table with the second spelling of root canal, rootcanal.
ConditionTableWithRootcanal ==
    ConditionTable \o
    << [label |-> <<114, 111, 111, 116, 99, 97, 110, 97, 108>>, color |-> "rootCanal"] >>

\* The color of the condition in the table, matched without regard to case, or the
\* 'other' color for a condition outside the table.
TableColor(table, condition, theme) ==
    LET at == {k \in 1..Len(table) : DictionaryOrder(table[k].label, condition) = 0}
    IN  IF at = {} THEN UseColors(theme).other
        ELSE UseColors(theme)[table[CHOOSE k \in at : TRUE].color]

\* The entries of the payload that name a condition and that no later entry of the
\* same tooth replaces.
ConditionEntries ==
    LET es == TeethConditions
    IN  {k \in 1..Len(es) :
           /\ es[k].tooth_number \in 1..32
           /\ es[k].condition # <<>>
           /\ \A m \in (k + 1)..Len(es) : es[m].tooth_number # es[k].tooth_number}

\* Every tooth with a condition in the payload is drawn in the color `table` gives it.
TeethColoredBy(table) ==
    chartProps.t = "props" =>
       \A k \in ConditionEntries :
          LET e == TeethConditions[k]
          IN  RenderTooth(e.tooth_number).color
                 = TableColor(table, e.condition[1], chartProps.theme)

\* C14 (as claimed): every tooth 1..32 with an entry in the chart payload is drawn in
\* the color its condition has in the table healthy, missing, crown, filling, decay,
\* root canal, implant, matched without regard to case, and in the 'other' color when
\* its condition is outside that table.
C14_ToothColorByTable == TeethColoredBy(ConditionTable)

\* C14 (amended): the same, for the table that also holds the spelling rootcanal.
C14_ToothColorByTableWithRootcanal == TeethColoredBy(ConditionTableWithRootcanal)

\* A chart is shown in which "RootCanal" is drawn as a root canal, "Veneer" as other
\* and "Crown", replaced by "decay" for the same tooth, as decay.
C14_Witness ==
    /\ chartProps.t = "props"
    /\ chartTab = "teeth"
    /\ chartProps.theme = "dark"
    /\ RenderTooth(30).color = UseColors("dark").rootCanal
    /\ RenderTooth(8).color = UseColors("dark").other
    /\ RenderTooth(3).color = UseColors("dark").decay
    /\ Cardinality(ConditionEntries) > 5

(***************************************************************************)
(* C15: the selection of a tooth.                                          *)
(***************************************************************************)
\* The teeth whose cell carries the selection mark.
SelectedTeeth == {n \in 1..32 : RenderTooth(n).isSelected}

\* The detail panel is shown and is the one of tooth n.
PanelShows(n) == DetailPanel # <<>> /\ DetailPanel[1].tooth = n

\* Tooth n has an entry in the chart payload.
HasEntry(n) == \E k \in 1..Len(TeethConditions) : TeethConditions[k].tooth_number = n

\* On the teeth tab with the chart loaded: one tooth at most carries the selection
\* mark, it is the tooth clicked last unless that click took the mark away, and
\* without a marked tooth no panel is shown.
OneSelection ==
    chartProps.t = "props" /\ chartTab = "teeth" =>
       /\ Cardinality(SelectedTeeth) <= 1
       /\ SelectedTeeth = (IF selectedTooth = 0 THEN {} ELSE {selectedTooth})
       /\ (SelectedTeeth = {} => DetailPanel = <<>>)

\* C15 (as claimed): for every tooth 1..32, a click on a tooth that is not selected
\* selects it and shows the detail panel of that tooth, a click on the selected tooth
\* deselects it and hides the panel, and at most one tooth is selected at any time.
C15_ClickTogglesPanel ==
    [][/\ OneSelection
       /\ (chartProps.t = "props" /\ chartTab = "teeth" =>
             \A n \in SelectedTeeth : PanelShows(n))
       /\ \A n \in 1..32 :
             ClickTooth(n) =>
                selectedTooth' = (IF n \in SelectedTeeth THEN 0 ELSE n)]_vars

\* C15 (amended): the same, but the detail panel of the selected tooth is shown only
\* when the tooth has an entry in the chart payload; a tooth without an entry is
\* selected and no panel is shown.
C15_ClickTogglesPanelOfEntry ==
    [][/\ OneSelection
       /\ (chartProps.t = "props" /\ chartTab = "teeth" =>
             \A n \in SelectedTeeth :
                IF HasEntry(n) THEN PanelShows(n) ELSE DetailPanel = <<>>)
       /\ \A n \in 1..32 :
             ClickTooth(n) =>
                selectedTooth' = (IF n \in SelectedTeeth THEN 0 ELSE n)]_vars

\* Tooth 14 of the chart with few entries was clicked and its panel is shown.
C15_Witness ==
    /\ chartProps.t = "props"
    /\ Len(TeethConditions) < 32
    /\ SelectedTeeth = {14}
    /\ PanelShows(14)

(***************************************************************************)
(* C16: the filter of the procedures tab.                                  *)
(***************************************************************************)
\* Text s holds the letters of q in a row, whatever their case.
HoldsWord(s, q) ==
    \E at \in 0..(Len(s) - Len(q)) :
        \A k \in 1..Len(q) : FoldCase(s[at + k]) = FoldCase(q[k])

\* The status of procedure p holds one of the words.
StatusHolds(p, words) == p.status # <<>> /\ \E q \in words : HoldsWord(p.status[1], q)

\* The rows of the payload, in payload order, whose status holds one of the words.
RowsWith(words) == SelectSeq(Procedures, LAMBDA p : StatusHolds(p, words))

\* C16: in the procedures tab the filter 'all' shows every procedure, 'completed'
\* exactly the procedures whose lower-cased status contains "complet" and 'planned'
\* exactly those whose lower-cased status contains "plan" or "tp"; the counters of
\* the Completed and Planned buttons are the values of the payload's
\* procedure_summary, whatever the filter is and however many rows are shown.
C16_ProcFilterAndCounters ==
    chartProps.t = "props" =>
       LET shown == FilteredProcs(Procedures, procFilter)
           summary == chartProps.chart.procedure_summary
       IN  /\ (procFilter = "all" => shown = Procedures)
           /\ (procFilter = "completed" =>
                 shown = RowsWith({<<99, 111, 109, 112, 108, 101, 116>>}))
           /\ (procFilter = "planned" =>
                 shown = RowsWith({<<112, 108, 97, 110>>, <<116, 112>>}))
           /\ (summary # <<>> =>
                 /\ FilterCounter("completed") = summary[1].completed_procedures
                 /\ FilterCounter("planned") = summary[1].treatment_planned_procedures)

\* The planned rows of the full chart are shown, "TP" among them, while the Planned
\* button counts 0 and the Completed button 9.
C16_Witness ==
    /\ chartProps.t = "props"
    /\ chartTab = "procedures"
    /\ procFilter = "planned"
    /\ Len(FilteredProcs(Procedures, procFilter)) = 3
    /\ \E k \in 1..3 : FilteredProcs(Procedures, procFilter)[k].status = << <<84, 80>> >>
    /\ FilterCounter("planned") = <<0>>
    /\ FilterCounter("completed") = <<9>>

(***************************************************************************)
(* C17: the pages of the account tab.                                      *)
(***************************************************************************)
\* C17: for any number M of transactions, after any Prev and Next clicks and tab
\* switches, the page of the account tab lies in [1, max(1, ceil(M / 15))] and the
\* table shows at most 15 transactions: the rows (page - 1) * 15 .. page * 15 - 1 of
\* the payload's list (counted from 0), as far as the list goes.
C17_AccountPageInRange ==
    reportProps.t = "props" =>
       LET M == Len(Transactions)
           last == IF PagesFor(M, 15) < 1 THEN 1 ELSE PagesFor(M, 15)
           first == (AcctSafePage - 1) * 15
       IN  /\ AcctSafePage >= 1
           /\ AcctSafePage <= last
           /\ Len(PageTx) <= 15
           /\ Len(PageTx) = (IF M - first < 15 THEN M - first ELSE 15)
           /\ \A k \in 1..Len(PageTx) : PageTx[k] = Transactions[first + k]

\* The third page of the account tab is shown, after two clicks on Next: it holds
\* less than a full page.
C17_Witness ==
    /\ reportProps.t = "props"
    /\ reportTab = "account"
    /\ acctPage = 3 /\ AcctSafePage = 3
    /\ Len(PageTx) > 0 /\ Len(PageTx) < 15
    /\ Len(Transactions) > 30

(***************************************************************************)
(* C20: the plans of the insurance tab.                                    *)
(***************************************************************************)
\* The plan exists and names a carrier of at least one character.
NamesCarrier(plan) ==
    /\ plan # <<>>
    /\ plan[1].carrier # <<>>
    /\ Len(plan[1].carrier[1]) > 0

\* The card with the label is among the cards the insurance tab shows.
CardShown(label) == \E k \in 1..Len(InsuranceCards) : InsuranceCards[k] = label

\* C20: in the insurance tab the primary (and likewise the secondary) plan card is
\* rendered exactly when that plan exists and has a non-empty carrier name; a plan
\* object without a carrier is never rendered.
C20_PlanCardIffCarrier ==
    reportProps.t = "props" /\ reportTab = "insurance" =>
       /\ (CardShown("Primary Insurance") <=> NamesCarrier(Insurance.primary))
       /\ (CardShown("Secondary Insurance") <=> NamesCarrier(Insurance.secondary))

\* The insurance tab shows the secondary plan only: the primary plan is an object
\* whose carrier is the empty text.
C20_Witness ==
    /\ reportProps.t = "props"
    /\ reportTab = "insurance"
    /\ Insurance.primary = << [carrier |-> << <<>> >>] >>
    /\ InsuranceCards = <<"Secondary Insurance">>

(***************************************************************************)
(* C19: the data envelope.                                                 *)
(***************************************************************************)
\* The value has a data field that is present and not null.
HasData(x) ==
    x.t = "obj" /\ "data" \in DOMAIN x.f /\ x.f["data"].t \notin {"null", "undefined"}

\* The invocation has ended on the parsed body {data: x} with the result that the
\* bare body x gives the same tool, and whenever that result is a widget, its
\* payload was read from the envelope if the body has a data field that is present
\* and not null, and from the raw body otherwise.
SameAsBare(i, x) ==
    LET body == inv[i].body
        inner == IF HasData(body) THEN body.f["data"] ELSE body
        key == SubObjectKey(inv[i].tool)
        prop == CASE inv[i].tool = "get-patients" -> "patients"
                  [] inv[i].tool = "get-patient-chart" -> "chart"
                  [] inv[i].tool = "get-reports" -> "report"
    IN  /\ inv[i].results
             = <<HandlerResult(inv[i].tool, inv[i].patient_name, Returned(x))>>
        /\ IsWidget(i) =>
              inv[i].results[1].props[prop]
                 = (IF inner.t = "obj" /\ key \in DOMAIN inner.f /\ inner.f[key].t # "null"
                    THEN inner.f[key] ELSE Arr(<<>>))

\* C19 (as claimed): for each tool, the body {data: X} and the bare body X give the
\* same tool result (the same widget props and summary text, or the same error); the
\* envelope is used whenever the data field is present and not null, and the raw body
\* otherwise.
C19_EnvelopeSameAsBare ==
    \A i \in Invocations : \A k \in 1..Len(Bodies) :
        (/\ Done(i) /\ Parsed(i)
         /\ Bodies[k].t # "malformed"
         /\ inv[i].body = Envelope(Bodies[k]))
          => SameAsBare(i, Bodies[k])

\* C19 (amended): the same for every payload X that is not null and has no data
\* field of its own that is present and not null. For the payload null the two
\* bodies differ: {data: null} is read as a raw body without patients, chart or
\* report (an empty patient list, or the 'No ... data returned' error), and the bare
\* body null ends in the 'Failed to fetch ...' error.
C19_EnvelopeSameAsBareWithoutOwnData ==
    \A i \in Invocations :
        /\ \A k \in 1..Len(Bodies) :
              (/\ Done(i) /\ Parsed(i)
               /\ Bodies[k].t \notin {"malformed", "null"}
               /\ ~HasData(Bodies[k])
               /\ inv[i].body = Envelope(Bodies[k]))
                => SameAsBare(i, Bodies[k])
        /\ (Done(i) /\ Parsed(i) /\ inv[i].body = Envelope(Null))
              => IF inv[i].tool = "get-patients"
                 THEN IsWidget(i) /\ inv[i].results[1].props.patients = Arr(<<>>)
                 ELSE /\ IsError(i)
                      /\ inv[i].results[1].message
                           = IF inv[i].tool = "get-patient-chart"
                             THEN <<"No chart data returned for this patient.">>
                             ELSE <<"No report data returned for this patient.">>
        /\ (Done(i) /\ Parsed(i) /\ inv[i].body = Null)
              => IsError(i) /\ inv[i].results[1].message[1] = FailPrefix(inv[i].tool)

\* get-patients read {data: {patients: [Jane], total_count: 1}} and returned the
\* widget of the bare payload.
C19_Witness ==
    \E i \in Invocations :
        /\ inv[i].tool = "get-patients"
        /\ inv[i].body = Envelope(Payloads[1])
        /\ IsWidget(i)
        /\ inv[i].results[1].props.patients = Arr(<<Jane>>)

(***************************************************************************)
(* C18: the get-patients example.                                          *)
(***************************************************************************)
\* The example's body: {data: {patients: [Jane Doe, 40, Reno, active], total_count: 1}}.
ExampleBody ==
    Obj([data |-> Obj([patients |->
                          Arr(<< Obj([first_name |-> Str("Jane"), last_name |-> Str("Doe"),
                                      age |-> Num(40), city |-> Str("Reno"),
                                      status |-> Str("active")]) >>),
                       total_count |-> Num(1)])])

\* get-patients has ended on the example's body.
ExampleAnswered ==
    /\ Done("a") /\ Parsed("a")
    /\ inv["a"].tool = "get-patients"
    /\ inv["a"].body = ExampleBody

\* The summary text starts with 'Found 1 patient(s)' and, once the widget has the
\* result and before anything is typed, the table shows one row, Jane Doe, on page
\* 1 of 1 page.
ExampleShown ==
    ExampleAnswered =>
       /\ IsWidget("a")
       /\ SubSeq(inv["a"].results[1].output, 1, 2) = <<"Found ", "1">>
       /\ inv["a"].results[1].output[3]
            = " patient(s). Use the table to browse or click a patient for details."
       /\ (~isPending /\ search = <<>>) =>
             /\ Len(PageData) = 1
             /\ patients[PageData[1]].first_name = <<74, 97, 110, 101>>
             /\ patients[PageData[1]].last_name = <<68, 111, 101>>
             /\ SafePage = 1
             /\ PagesFor(Len(sorted), 10) = 1

\* C18 (as claimed): in the get-patients example the summary text starts with
\* 'Found 1 patient(s)', the list widget shows exactly one row, and the widget
\* reports page 1 of 1.
C18_ExampleScenario ==
    /\ ExampleShown
    /\ (ExampleAnswered /\ ~isPending /\ search = <<>>) =>
          PaginationBar = << [page |-> 1, of |-> 1] >>

\* C18 (amended): the same, but the page is 1 of 1 without being reported: the
\* pagination bar is rendered for more than one page only.
C18_ExampleScenarioWithoutBar ==
    /\ ExampleShown
    /\ (ExampleAnswered /\ ~isPending /\ search = <<>>) => PaginationBar = <<>>

\* The widget shows the result of the example, sorted by age downwards.
C18_Witness ==
    /\ ExampleAnswered
    /\ ~isPending
    /\ search = <<>>
    /\ Len(PageData) = 1
    /\ sortKey = "age" /\ sortDir = "desc"

(***************************************************************************)
(* C22..C24: the timeout of a call.                                        *)
(***************************************************************************)
\* Call i starts in this step: its request goes out and its timer is armed.
Starts(i) == inv[i].pc = "idle" /\ inv'[i].pc = "fetching"

\* C22 (as claimed): the report-generation tool runs with the long timeout, and a
\* tool that is not in the long class runs with callBackend's short default timeout.
C22_TwoTimeoutClasses ==
    [][\A i \in Invocations :
          Starts(i) =>
             inv'[i].deadline
                = now + (IF inv'[i].tool = "get-reports" THEN 30 * 60000 ELSE 5 * 60000)]_vars

\* C22 (amended): every tool is in the long class: get-patients, get-patient-chart
\* and get-reports all run with the long timeout of 30 minutes, and no tool runs with
\* callBackend's short default of 5 minutes.
C22_EveryToolLongTimeout ==
    [][\A i \in Invocations :
          Starts(i) =>
             /\ inv'[i].deadline = now + 30 * 60000
             /\ inv'[i].deadline # now + 5 * 60000
             /\ inv'[i].timer = "armed"]_vars

\* get-patients and get-reports were started one tick apart and have their deadlines
\* one tick apart.
C22_Witness ==
    /\ inv["a"].tool = "get-patients" /\ inv["a"].requests = 1
    /\ inv["b"].tool = "get-reports" /\ inv["b"].requests = 1
    /\ inv["a"].deadline = 30 * 60000
    /\ inv["b"].deadline = 2 * 30 * 60000

\* The response of call i was complete, headers and body, before the timeout.
CompleteInTime(i) == inv[i].recv = "complete" /\ inv[i].inTime

\* The call has ended with `outcome`, its timer is cleared, and the timeout does not
\* touch the invocation from here on.
EndedFor(i, outcome) ==
    /\ inv[i].pc = "done"
    /\ inv[i].timer = "cleared"
    /\ ~inv[i].aborted
    /\ inv[i].results = <<HandlerResult(inv[i].tool, inv[i].patient_name, outcome)>>
    /\ inv'[i] = inv[i]

\* C23 (as claimed): when the response's headers and body are both complete before
\* the timeout, callBackend returns the parsed JSON, the timer is cleared, and the
\* timeout never turns the invocation into a failure afterwards.
C23_InTimeResponseReturnsJson ==
    [][\A i \in Invocations :
          CompleteInTime(i) => EndedFor(i, Returned(inv[i].body))]_vars

\* C23 (amended): when the headers and the body of a 2xx response are both complete
\* before the timeout, callBackend returns the parsed JSON if the body is JSON and
\* fails with the parse error if it is not; either way the timer is cleared and the
\* timeout never changes the invocation's result afterwards.
C23_InTimeResponseSettles ==
    [][\A i \in Invocations :
          CompleteInTime(i) =>
             /\ ResOk(inv[i].res.status)
             /\ IF inv[i].body.t = "malformed"
                THEN /\ EndedFor(i, Thrown(<<"Unexpected token in JSON">>))
                     /\ IsError(i)
                ELSE EndedFor(i, Returned(inv[i].body))]_vars

\* A chart arrived in time, and the deadline has passed since.
C23_Witness ==
    /\ inv["a"].tool = "get-patient-chart"
    /\ inv["a"].recv = "complete" /\ inv["a"].inTime
    /\ IsWidget("a")
    /\ inv["a"].timer = "cleared"
    /\ now > inv["a"].deadline

\* C24: on every way out of callBackend (parsed JSON, non-2xx status, network error,
\* abort, JSON parse failure) the timer is cleared before the call settles: no timer
\* of a finished invocation is pending, a timer that has run is the one that aborted
\* the call, and no abort fires after the invocation has settled.
C24_NoTimerAfterSettle ==
    [][\A i \in Invocations :
          inv[i].pc = "done" =>
             /\ inv[i].timer # "armed"
             /\ (inv[i].requests = 1 => inv[i].timer \in {"cleared", "fired"})
             /\ (inv[i].timer = "fired" <=> inv[i].aborted)
             /\ inv'[i].timer = inv[i].timer
             /\ inv'[i].aborted = inv[i].aborted]_vars

\* One call ended on a JSON parse failure and the other on a 404, both with their
\* timers cleared, and their deadlines have passed.
C24_Witness ==
    /\ Done("a") /\ inv["a"].body.t = "malformed" /\ inv["a"].timer = "cleared"
    /\ Done("b") /\ inv["b"].res.status = 404 /\ inv["b"].timer = "cleared"
    /\ now > inv["a"].deadline /\ now > inv["b"].deadline

(***************************************************************************)
(* C25, C26: what the controls of the list change, and the pages.          *)
(***************************************************************************)
\* C25: every edit of the search text sets the page to 1; a click on a sort header
\* (a change of the sort key or direction) leaves the search text and the page as
\* they are; and a step that changes the page otherwise is a click on Prev or Next:
\* it changes nothing but the page, moves the displayed page by exactly one, and is
\* possible only when the page it goes to lies within 1..totalPages.
C25_ControlsChangeOnlyTheirState ==
    [][/\ search' # search
          => page' = 1 /\ UNCHANGED <<patients, sortKey, sortDir, isPending>>
       /\ (sortKey' # sortKey \/ sortDir' # sortDir)
          => UNCHANGED <<search, page, patients, isPending>>
       /\ (page' # page /\ search' = search)
          => /\ page' \in {SafePage - 1, SafePage + 1}
             /\ page' \in 1..TotalPages
             /\ UNCHANGED <<patients, search, sortKey, sortDir, filtered, sorted, isPending>>
       /\ (page' = page /\ search' = search /\ ~isPending)
          => (sortKey' # sortKey \/ sortDir' # sortDir)]_vars

\* Page 2 of a search result, sorted downwards by age: the search was edited, Next
\* was clicked and a header was clicked twice.
C25_Witness ==
    /\ search # <<>>
    /\ page = 2
    /\ sortKey = "age" /\ sortDir = "desc"
    /\ TotalPages >= 2


\* C26: the pages 1..totalPages partition the sorted filtered list: row k of the list
\* is row ((k - 1) mod 10) + 1 of page ((k - 1) div 10) + 1 and the pages hold no
\* other rows; every page but the last holds exactly 10 rows; and the page shown is
\* empty only when the filtered list is empty.
C26_PagesPartitionSortedList ==
    /\ Len(sorted) = Len(filtered)
    /\ \A k \in 1..Len(sorted) :
          LET p == ((k - 1) \div 10) + 1
          IN  /\ p \in 1..TotalPages
              /\ ((k - 1) % 10) + 1 \in 1..Len(PageDataAt(p))
              /\ PageDataAt(p)[((k - 1) % 10) + 1] = sorted[k]
    /\ \A p \in 1..TotalPages :
          /\ p < TotalPages => Len(PageDataAt(p)) = 10
          /\ Len(PageDataAt(p)) = (IF p < TotalPages THEN 10
                                   ELSE Len(sorted) - 10 * (TotalPages - 1))
          /\ Len(PageDataAt(p)) <= 10
    /\ SafePage \in 1..TotalPages
    /\ PageData = PageDataAt(SafePage)
    /\ (PageData = <<>> <=> filtered = <<>>)

\* The third and last page is shown and is not full, after two full pages.
C26_Witness ==
    /\ TotalPages = 3
    /\ page = 3
    /\ Len(PageData) \in 1..9
    /\ Len(PageDataAt(1)) = 10 /\ Len(PageDataAt(2)) = 10


(***************************************************************************)
(* C27: the rows of the procedures tab.                                    *)
(***************************************************************************)
\* The rows of s are rows of t, in the order they have in t: row k of s is found in t
\* after the place where row k - 1 was found (the earliest such place).
Embeds(s, t) ==
    LET place[k \in 0..Len(s)] ==
            IF k = 0 THEN 0
            ELSE LET later == {j \in (place[k - 1] + 1)..Len(t) : t[j] = s[k]}
                 IN  IF later = {} THEN Len(t) + 1
                     ELSE CHOOSE j \in later : \A m \in later : j <= m
    IN  place[Len(s)] <= Len(t)

\* C27: the rows of the procedures tab are a sub-sequence of the payload's procedures,
\* in payload order, under every filter; the rows of 'completed' and of 'planned'
\* are among the rows of 'all'; and a change of the filter leaves the payload alone,
\* so that the filter 'all' shows the whole list again after any filter changes.
C27_RowsEmbedInPayload ==
    [][chartProps.t = "props" =>
          /\ \A f \in ProcFilters :
                /\ Embeds(FilteredProcs(Procedures, f), Procedures)
                /\ Embeds(FilteredProcs(Procedures, f), FilteredProcs(Procedures, "all"))
                /\ Len(FilteredProcs(Procedures, f)) <= Len(Procedures)
          /\ FilteredProcs(Procedures, "all") = Procedures
          /\ chartProps' = chartProps]_vars

\* The completed rows are shown: more than one, fewer than the payload has, and not
\* the rows the payload starts with.
C27_Witness ==
    /\ chartProps.t = "props"
    /\ chartTab = "procedures"
    /\ procFilter = "completed"
    /\ Len(FilteredProcs(Procedures, procFilter)) \in 2..(Len(Procedures) - 1)
    /\ FilteredProcs(Procedures, procFilter)
          # SubSeq(Procedures, 1, Len(FilteredProcs(Procedures, procFilter)))


(***************************************************************************)
(* C28: the placeholder of the insurance tab.                              *)
(***************************************************************************)
\* C28: the insurance tab shows the placeholder 'No insurance information on file.'
\* exactly when neither the primary nor the secondary plan card is rendered: never a
\* plan card together with the placeholder, and never nothing at all.
C28_PlaceholderIffNoPlanCard ==
    reportProps.t = "props" /\ reportTab = "insurance" =>
       LET placeholder == CardShown("No insurance information on file.")
           anyCard == CardShown("Primary Insurance") \/ CardShown("Secondary Insurance")
       IN  /\ placeholder <=> ~anyCard
           /\ ~(placeholder /\ anyCard)
           /\ InsuranceCards # <<>>
           /\ (placeholder => InsuranceCards = <<"No insurance information on file.">>)
           /\ Len(InsuranceCards) \in 1..2

\* Only the placeholder is shown: there is no primary plan and the secondary plan is
\* an object without a carrier.
C28_Witness ==
    /\ reportProps.t = "props"
    /\ reportTab = "insurance"
    /\ Insurance.primary = <<>>
    /\ Insurance.secondary # <<>>
    /\ InsuranceCards = <<"No insurance information on file.">>


(***************************************************************************)
(* C29: teeth without an entry and teeth with several entries.             *)
(***************************************************************************)
\* The places in the payload of the entries for tooth n.
EntriesOf(n) == {k \in 1..Len(TeethConditions) : TeethConditions[k].tooth_number = n}

\* The last place in the set.
LastOf(places) == CHOOSE k \in places : \A m \in places : m <= k

\* C29: a tooth 1..32 that has no entry in the payload, or whose entry has no
\* condition (the field is absent or null), is drawn in the 'healthy' color and not
\* in the 'other' color; of several entries for one tooth the last one in payload
\* order gives the cell its color and the detail panel its data.
C29_NoEntryHealthyLastEntryWins ==
    chartProps.t = "props" =>
       /\ Teeth = 1..32
       /\ \A n \in 1..32 :
             LET colors == UseColors(chartProps.theme)
                 cell == RenderTooth(n)
             IN  IF EntriesOf(n) = {}
                 THEN /\ cell.color = colors.healthy
                      /\ cell.color # colors.other
                      /\ (selectedTooth = n => DetailPanel = <<>>)
                 ELSE LET e == TeethConditions[LastOf(EntriesOf(n))]
                      IN  /\ IF e.condition = <<>>
                             THEN cell.color = colors.healthy /\ cell.color # colors.other
                             ELSE cell.color
                                     = TableColor(ConditionTableWithRootcanal,
                                                  e.condition[1], chartProps.theme)
                          /\ (selectedTooth = n /\ chartTab = "teeth"
                                => DetailPanel = << [tooth |-> n, data |-> e] >>)

\* Tooth 3 has the entries Crown and decay and is selected: the panel shows decay and
\* the cell has the decay color, while tooth 5 (an entry without a condition) and
\* tooth 2 (no entry) are drawn healthy.
C29_Witness ==
    /\ chartProps.t = "props"
    /\ chartProps.theme = "light"
    /\ chartTab = "teeth"
    /\ Cardinality(EntriesOf(3)) = 2
    /\ selectedTooth = 3
    /\ DetailPanel # <<>>
    /\ DetailPanel[1].data.condition = << <<100, 101, 99, 97, 121>> >>
    /\ RenderTooth(3).color = UseColors("light").decay
    /\ EntriesOf(5) # {} /\ RenderTooth(5).color = UseColors("light").healthy
    /\ EntriesOf(2) = {} /\ RenderTooth(2).color = UseColors("light").healthy


(***************************************************************************)
(* C21: payloads with absent and partly populated parts.                   *)
(***************************************************************************)
\* The part of the payload is absent or null.
Lacks(payload, part) == ~CanRead(OptGet(payload, part))

\* C21: for every chart or report payload in which any of the optional sub-objects
\* and collections is absent, null or partly populated, the widget renders without
\* an error in every tab (and under every procedure filter), and it derives an empty
\* collection with its placeholder from every part that is absent: no tooth entries,
\* "No procedures found.", "-" for the summary values, no clinical sections,
\* "No family members found.", "No insurance information on file.",
\* "No transactions.", "No treatment procedures." and "None." for the appointments.
C21_AbsentPartsRenderAsPlaceholders ==
    /\ chartProps.t = "props" =>
          LET props == chartProps.props
              chart == Get(props, "chart")
              shown(tab) == ChartShows(props, tab, procFilter)
          IN  /\ \A tab \in Tabs, f \in ProcFilters : ~ChartThrows(props, tab, f)
              /\ shown("teeth").cells = 32
              /\ (Lacks(chart, "tooth_chart")
                    \/ Lacks(Get(chart, "tooth_chart"), "teeth_with_conditions"))
                 => shown("teeth").entries = {}
              /\ Lacks(chart, "tooth_chart") => shown("teeth").quadrants = 0
              /\ Lacks(chart, "procedures")
                 => /\ shown("procedures").counter = 0
                    /\ \A f \in ProcFilters :
                          ChartShows(props, "procedures", f).placeholder
                             = <<"No procedures found.">>
              /\ Lacks(chart, "procedure_summary")
                 => /\ shown("procedures").total = Str("-")
                    /\ shown("procedures").exams = Str("-")
              /\ Lacks(chart, "clinical_explanation") => shown("clinical").sections = 0
    /\ reportProps.t = "props" =>
          LET props == reportProps.props
              report == Get(props, "report")
              shown(tab) == ReportShows(props, tab)
              none(placeholder) == [rows |-> 0, placeholder |-> <<placeholder>>]
          IN  /\ \A tab \in ReportTabs : ~ReportThrows(props, tab)
              /\ Lacks(report, "patient_info") => ~shown("overview").name
              /\ Lacks(report, "recall") => ~shown("overview").recall
              /\ Lacks(report, "family_members")
                 => shown("family") = none("No family members found.")
              /\ Lacks(report, "insurance")
                 => shown("insurance")
                       = [cards |-> <<>>,
                          placeholder |-> <<"No insurance information on file.">>]
              /\ Lacks(report, "account")
                 => shown("account") = [transactions |-> none("No transactions."),
                                        claims |-> 0]
              /\ Lacks(report, "treatment_plans")
                 => shown("treatment") = [procedures |-> none("No treatment procedures."),
                                          plans |-> 0]
              /\ Lacks(report, "appointments")
                 => shown("appointments") = [scheduled |-> none("None."),
                                             past |-> none("None."),
                                             next |-> FALSE]

\* The procedures tab of a chart without tooth chart, with null procedures and with a
\* summary that has only its total: the placeholder row and "-" for the exams.
C21_Witness ==
    /\ chartProps.t = "props"
    /\ chartTab = "procedures"
    /\ procFilter = "completed"
    /\ Lacks(Get(chartProps.props, "chart"), "tooth_chart")
    /\ Get(Get(chartProps.props, "chart"), "procedures").t = "null"
    /\ Get(Get(chartProps.props, "chart"), "patient_info").t = "obj"
    /\ ChartShows(chartProps.props, chartTab, procFilter).placeholder = <<"No procedures found.">>
    /\ ChartShows(chartProps.props, chartTab, procFilter).total = Num(3)
    /\ ChartShows(chartProps.props, chartTab, procFilter).exams = Str("-")

====
